---- MODULE Spec2Model ----
(***************************************************************************)
(* A model of httpx (github.com/yousef-muc/httpx): the request pipeline    *)
(* of client.do (core.go) behind the verbs Get/Post/Put/Patch/Delete       *)
(* (client.go), the functional options (WithHeaders/WithParams/WithBody,   *)
(* buildOptions) and the response helpers of response.go.                  *)
(*                                                                         *)
(* Strings are sequences of one-character strings, so that case folding,   *)
(* splitting, escaping and sorting are computed and not assumed.           *)
(***************************************************************************)
EXTENDS Integers, Sequences, FiniteSets, TLC

\* ------------------------------------------------------------------------
\* Characters and strings
\* ------------------------------------------------------------------------

\* The printable ASCII characters, in code order: Ascii[i] has code 31 + i
\* (code 96, the grave accent, cannot be written in a string here and is held
\* by a name no input uses).
Ascii ==
  << " ", "!", "\"", "#", "$", "%", "&", "'", "(", ")", "*", "+", ",", "-", ".", "/",
     "0", "1", "2", "3", "4", "5", "6", "7", "8", "9", ":", ";", "<", "=", ">", "?",
     "@", "A", "B", "C", "D", "E", "F", "G", "H", "I", "J", "K", "L", "M", "N", "O",
     "P", "Q", "R", "S", "T", "U", "V", "W", "X", "Y", "Z", "[", "\\", "]", "^", "_",
     "GRAVE", "a", "b", "c", "d", "e", "f", "g", "h", "i", "j", "k", "l", "m", "n", "o",
     "p", "q", "r", "s", "t", "u", "v", "w", "x", "y", "z", "{", "|", "}", "~" >>

Printable == {Ascii[i] : i \in 1..Len(Ascii)}

\* The byte value of a printable character.
CodeOf == [c \in Printable |-> 31 + (CHOOSE i \in 1..Len(Ascii) : Ascii[i] = c)]

\* A control character of the model: everything outside printable ASCII
\* (the inputs use only "\n").
IsCTL(c) == c \notin Printable

UpperLetters == {Ascii[i] : i \in 34..59}
LowerLetters == {Ascii[i] : i \in 66..91}
Digits == {Ascii[i] : i \in 17..26}

\* unicode.ToLower / unicode.ToUpper on ASCII.
ToLowerChar(c) == IF c \in UpperLetters THEN Ascii[CodeOf[c] - 31 + 32] ELSE c
ToUpperChar(c) == IF c \in LowerLetters THEN Ascii[CodeOf[c] - 31 - 32] ELSE c

\* strings.ToLower
ToLower(s) == [i \in 1..Len(s) |-> ToLowerChar(s[i])]

\* Used to build mixed-case inputs only.
ToUpper(s) == [i \in 1..Len(s) |-> ToUpperChar(s[i])]

\* strings.Index for a one-character separator: 0 when absent.
IndexByte(s, c) ==
  IF \E i \in 1..Len(s) : s[i] = c
  THEN CHOOSE i \in 1..Len(s) : s[i] = c /\ \A j \in 1..(i - 1) : s[j] # c
  ELSE 0

\* strings.Cut(s, sep) for a one-character separator.
Cut(s, c) ==
  LET i == IndexByte(s, c)
  IN  IF i = 0
      THEN [before |-> s, after |-> <<>>, found |-> FALSE]
      ELSE [before |-> SubSeq(s, 1, i - 1), after |-> SubSeq(s, i + 1, Len(s)),
            found |-> TRUE]

\* strings.Split(s, sep) for a one-character separator: always at least one piece.
RECURSIVE Split(_, _)
Split(s, c) ==
  LET p == Cut(s, c)
  IN  IF p.found THEN <<p.before>> \o Split(p.after, c) ELSE <<s>>

\* Byte-wise string order (Go's < on strings), on printable strings.
RECURSIVE StrLess(_, _)
StrLess(s, t) ==
  IF t = <<>> THEN FALSE
  ELSE IF s = <<>> THEN TRUE
  ELSE IF s[1] = t[1] THEN StrLess(Tail(s), Tail(t))
  ELSE CodeOf[s[1]] < CodeOf[t[1]]

\* The keys of a finite map in sorted order (sort.Strings / slices.Sorted).
RECURSIVE SortedKeys(_)
SortedKeys(S) ==
  IF S = {} THEN <<>>
  ELSE LET m == CHOOSE x \in S : \A y \in S \ {x} : StrLess(x, y)
       IN  <<m>> \o SortedKeys(S \ {m})

\* The orders in which a range loop may visit the keys of a Go map.
Orders(S) ==
  {f \in [1..Cardinality(S) -> S] : \A i, j \in 1..Cardinality(S) : i # j => f[i] # f[j]}

RECURSIVE Concat(_)
Concat(ss) == IF ss = <<>> THEN <<>> ELSE Head(ss) \o Concat(Tail(ss))

\* strings.Join
RECURSIVE Join(_, _)
Join(ss, sep) ==
  IF ss = <<>> THEN <<>>
  ELSE IF Len(ss) = 1 THEN ss[1]
  ELSE ss[1] \o sep \o Join(Tail(ss), sep)

\* ------------------------------------------------------------------------
\* http.Header: a map from key to a list of values
\* ------------------------------------------------------------------------

\* The characters of an HTTP token (textproto's validHeaderFieldByte).
TokenChars ==
  UpperLetters \cup LowerLetters \cup Digits
    \cup {"!", "#", "$", "%", "&", "'", "*", "+", "-", ".", "^", "_", "|", "~"}

\* textproto.CanonicalMIMEHeaderKey: the first letter and every letter after
\* a hyphen upper-cased, the others lower-cased; a key holding a character
\* that is no token character is returned unchanged.
CanonicalMIMEHeaderKey(s) ==
  IF \E i \in 1..Len(s) : s[i] \notin TokenChars
  THEN s
  ELSE [i \in 1..Len(s) |->
          IF i = 1 \/ s[i - 1] = "-" THEN ToUpperChar(s[i]) ELSE ToLowerChar(s[i])]

\* make(http.Header)
EmptyHeader == [k \in {} |-> <<>>]

\* http.Header.Set: the canonical key's entry becomes the single value.
HeaderSet(h, key, value) ==
  LET ck == CanonicalMIMEHeaderKey(key)
  IN  [k \in DOMAIN h \cup {ck} |-> IF k = ck THEN <<value>> ELSE h[k]]

\* http.Header.Get: the first value of the canonical key's entry, or "".
HeaderGet(h, key) ==
  LET ck == CanonicalMIMEHeaderKey(key)
  IN  IF ck \in DOMAIN h /\ Len(h[ck]) > 0 THEN h[ck][1] ELSE <<>>

\* A range loop that copies every entry with all its values.
RECURSIVE ApplyHeadersAllValues(_, _, _)
ApplyHeadersAllValues(h, src, ord) ==
  IF ord = <<>> THEN h
  ELSE LET key == Head(ord)
           ck  == CanonicalMIMEHeaderKey(key)
           h1  == [k \in DOMAIN h \cup {ck} |-> IF k = ck THEN src[key] ELSE h[k]]
       IN  ApplyHeadersAllValues(h1, src, Tail(ord))

\* One of the two range loops of do over a header map, visiting the keys in
\* the order ord: an entry with at least one value sets its first value.
RECURSIVE ApplyHeaders(_, _, _)
ApplyHeaders(h, src, ord) ==
  IF ord = <<>> THEN h
  ELSE LET key == Head(ord)
           h1  == IF Len(src[key]) > 0 THEN HeaderSet(h, key, src[key][1]) ELSE h
       IN  ApplyHeaders(h1, src, Tail(ord))

\* A resolver that applies the client's headers last, over the request's.
MergeHeadersDefaultsLast(cHeaders, oHeaders, ordC, ordO) ==
  ApplyHeaders(ApplyHeaders(EmptyHeader, oHeaders, ordO), cHeaders, ordC)

\* The header resolver of do: the client's headers first, then the
\* request's over them.  ordC and ordO are the map iteration orders.
MergeHeaders(cHeaders, oHeaders, ordC, ordO) ==
  ApplyHeaders(ApplyHeaders(EmptyHeader, cHeaders, ordC), oHeaders, ordO)

\* ------------------------------------------------------------------------
\* net/url: query escaping, url.Values, url.Parse
\* ------------------------------------------------------------------------

HexDigits == <<"0", "1", "2", "3", "4", "5", "6", "7", "8", "9", "A", "B", "C", "D", "E", "F">>

IsHex(c) == \E i \in 1..16 : HexDigits[i] = ToUpperChar(c)

UnHex(c) == (CHOOSE i \in 1..16 : HexDigits[i] = ToUpperChar(c)) - 1

\* url.shouldEscape in query-component mode: letters, digits and -_.~ stay.
ShouldEscape(c) == c \notin (UpperLetters \cup LowerLetters \cup Digits \cup {"-", "_", ".", "~"})

\* url.QueryEscape: a space becomes "+", every other escaped byte %XX.
EscapeChar(c) ==
  IF c = " " THEN <<"+">>
  ELSE IF ShouldEscape(c)
       THEN <<"%", HexDigits[(CodeOf[c] \div 16) + 1], HexDigits[(CodeOf[c] % 16) + 1]>>
       ELSE <<c>>

QueryEscape(s) == Concat([i \in 1..Len(s) |-> EscapeChar(s[i])])

\* url.QueryUnescape fails on a "%" that two hex digits do not follow.
RECURSIVE BadEscape(_)
BadEscape(s) ==
  IF s = <<>> THEN FALSE
  ELSE IF s[1] = "%"
       THEN IF Len(s) >= 3 /\ IsHex(s[2]) /\ IsHex(s[3])
            THEN BadEscape(SubSeq(s, 4, Len(s)))
            ELSE TRUE
       ELSE BadEscape(Tail(s))

\* url.QueryUnescape on a string without a bad escape: "+" becomes a space,
\* %XX the byte XX (a printable one, in this model).
RECURSIVE QueryUnescape(_)
QueryUnescape(s) ==
  IF s = <<>> THEN <<>>
  ELSE IF s[1] = "%"
       THEN <<Ascii[16 * UnHex(s[2]) + UnHex(s[3]) - 31]>> \o QueryUnescape(SubSeq(s, 4, Len(s)))
       ELSE IF s[1] = "+" THEN <<" ">> \o QueryUnescape(Tail(s))
       ELSE <<s[1]>> \o QueryUnescape(Tail(s))

\* url.Values{}
EmptyValues == [k \in {} |-> <<>>]

\* url.Values.Set
ValuesSet(v, key, value) == [k \in DOMAIN v \cup {key} |-> IF k = key THEN <<value>> ELSE v[k]]

\* url.Values.Add (the append of parseQuery)
ValuesAdd(v, key, value) ==
  [k \in DOMAIN v \cup {key} |->
     IF k = key THEN (IF key \in DOMAIN v THEN v[key] ELSE <<>>) \o <<value>> ELSE v[k]]

\* url.parseQuery over the "&"-separated pieces; u.Query() discards its error,
\* so a piece with a semicolon, an empty piece, and a piece whose key or value
\* has a bad escape are all skipped.
RECURSIVE ParseQueryPieces(_, _)
ParseQueryPieces(m, pieces) ==
  IF pieces = <<>> THEN m
  ELSE LET piece == Head(pieces)
           kv    == Cut(piece, "=")
           m1    == IF IndexByte(piece, ";") # 0 \/ piece = <<>> THEN m
                    ELSE IF BadEscape(kv.before) \/ BadEscape(kv.after) THEN m
                    ELSE ValuesAdd(m, QueryUnescape(kv.before), QueryUnescape(kv.after))
       IN  ParseQueryPieces(m1, Tail(pieces))

\* (*URL).Query()
Query(rawQuery) ==
  IF rawQuery = <<>> THEN EmptyValues ELSE ParseQueryPieces(EmptyValues, Split(rawQuery, "&"))

\* The key=value pieces of one key of url.Values.Encode.
EncodeKey(v, key) == [i \in 1..Len(v[key]) |-> QueryEscape(key) \o <<"=">> \o QueryEscape(v[key][i])]

\* url.Values.Encode: keys sorted, each value as key=value, joined by "&".
ValuesEncode(v) ==
  LET keys == SortedKeys(DOMAIN v)
  IN  Join(Concat([i \in 1..Len(keys) |-> EncodeKey(v, keys[i])]), <<"&">>)

\* The range loop of do over o.Params: q.Set(key, val) for every entry.
RECURSIVE SetParams(_, _, _)
SetParams(q, params, ord) ==
  IF ord = <<>> THEN q
  ELSE SetParams(ValuesSet(q, Head(ord), params[Head(ord)]), params, Tail(ord))

\* url.Parse refuses a string with a control character, and one whose part
\* before the query, or whose fragment, has a "%" that two hex digits do not
\* follow.  It does not look into the query.
ParseFails(uri) ==
  \/ \E i \in 1..Len(uri) : IsCTL(uri[i])
  \/ BadEscape(Cut(Cut(uri, "#").before, "?").before)
  \/ BadEscape(Cut(uri, "#").after)

\* url.Parse on a string ParseFails does not refuse: the fragment is cut at
\* the first "#", the query at the first "?"; a bare trailing "?" sets
\* ForceQuery.  Base holds scheme, host and path, which do leaves alone.
Parse(uri) ==
  LET f == Cut(uri, "#")
      q == Cut(f.before, "?")
  IN  [Base       |-> q.before,
       RawQuery   |-> q.after,
       ForceQuery |-> q.found /\ q.after = <<>>,
       Fragment   |-> f.after]

\* (*URL).String()
URLString(u) ==
  u.Base
    \o (IF u.ForceQuery \/ u.RawQuery # <<>> THEN <<"?">> \o u.RawQuery ELSE <<>>)
    \o (IF u.Fragment # <<>> THEN <<"#">> \o u.Fragment ELSE <<>>)

\* ------------------------------------------------------------------------
\* Values of the program
\* ------------------------------------------------------------------------

\* The string "s" as characters, for the literals of core.go.
ContentTypeKey == <<"C", "o", "n", "t", "e", "n", "t", "-", "T", "y", "p", "e">>
Application == <<"a", "p", "p", "l", "i", "c", "a", "t", "i", "o", "n", "/">>
ApplicationJSON == Application \o <<"j", "s", "o", "n">>
ApplicationXML == Application \o <<"x", "m", "l">>
TextXML == <<"t", "e", "x", "t", "/", "x", "m", "l">>
TextPlain == <<"t", "e", "x", "t", "/", "p", "l", "a", "i", "n">>
FormURLEncoded ==
  Application \o <<"x", "-", "w", "w", "w", "-", "f", "o", "r", "m", "-",
                   "u", "r", "l", "e", "n", "c", "o", "d", "e", "d">>
MultipartFormData ==
  <<"m", "u", "l", "t", "i", "p", "a", "r", "t", "/", "f", "o", "r", "m", "-", "d", "a", "t", "a">>
OctetStream == Application \o <<"o", "c", "t", "e", "t", "-", "s", "t", "r", "e", "a", "m">>

\* An error value: nil, an error made by fmt.Errorf or passed up from a
\* library (msg names it), or a *HttpError (response.go).
NoHttpError ==
  [StatusCode |-> 0, Status |-> "", Body |-> <<>>, Headers |-> EmptyHeader,
   Method |-> "", URL |-> <<>>]
NilErr == [type |-> "nil", msg |-> "", http |-> NoHttpError]
Err(msg) == [type |-> "error", msg |-> msg, http |-> NoHttpError]

\* The error messages of do.
ErrGetBody == "GET request cannot contain a body"
ErrFormShape == "body must be map[string]string or url.Values for x-www-form-urlencoded"
ErrMultipartShape == "multipart/form-data requires body = map[string]any"
ErrMultipartField == "unsupported multipart field type"
ErrOctetShape == "octet-stream requires []byte or io.Reader body"
ErrNewRequest == "unable to create request"
\* Errors of the libraries do calls.
ErrJSONUnsupported == "json: unsupported type"
ErrXMLUnsupported == "xml: unsupported type"
ErrRead == "read error"
ErrURLParse == "parse: invalid URL"
ErrTransport == "transport failure"

\* A body value (RequestOptions.Body, of type any) is its dynamic type and
\* content: data for a string, a []byte and an io.Reader (pos is the
\* reader's position, fail whether its Read ends in an error instead of
\* EOF), fields for the map types (each entry a type and its values).
NoFields == [k \in {} |-> [type |-> "string", vals |-> <<>>]]
NilBody == [type |-> "nil", data |-> <<>>, fields |-> NoFields, pos |-> 0, fail |-> FALSE]
DataBody(t, d) == [NilBody EXCEPT !.type = t, !.data = d]
ReaderBody(d, fail) == [NilBody EXCEPT !.type = "io.Reader", !.data = d, !.fail = fail]
MapBody(t, f) == [NilBody EXCEPT !.type = t, !.fields = f]

\* The encoded payload (requestBody []byte): nil, or bytes.  The bytes of the
\* form branch, of raw passthrough and of a string under text/plain are
\* held in data; the output of the marshalers is held as the marshaler (enc)
\* and the value marshaled (of); a multipart payload as its boundary and the
\* parts written.
NilPayload ==
  [isNil |-> TRUE, enc |-> "", data |-> <<>>, of |-> NilBody, parts |-> <<>>, boundary |-> <<>>]
Payload(enc, data, of) == [NilPayload EXCEPT !.isNil = FALSE, !.enc = enc, !.data = data, !.of = of]

\* json.Marshal: every body type of the model but a channel is supported.
JSONMarshal(body) ==
  IF body.type = "chan"
  THEN [err |-> Err(ErrJSONUnsupported), payload |-> NilPayload]
  ELSE [err |-> NilErr, payload |-> Payload("json", <<>>, body)]

\* xml.Marshal: maps and channels are unsupported types.
XMLMarshal(body) ==
  IF body.type \in {"chan", "map[string]string", "map[string]any", "url.Values"}
  THEN [err |-> Err(ErrXMLUnsupported), payload |-> NilPayload]
  ELSE [err |-> NilErr, payload |-> Payload("xml", <<>>, body)]

\* fmt.Sprintf("%v", body): a string prints as itself.
Sprintf(body) ==
  IF body.type = "string" THEN Payload("text", body.data, body) ELSE Payload("text", <<>>, body)

\* io.ReadAll on a reader: what is left from pos, and the reader's error.
ReadAll(r) ==
  [data   |-> SubSeq(r.data, r.pos + 1, Len(r.data)),
   err    |-> IF r.fail THEN Err(ErrRead) ELSE NilErr,
   reader |-> [r EXCEPT !.pos = Len(r.data)]]

\* The values loop of the form branch over a map[string]string.
RECURSIVE FormValues(_, _, _)
FormValues(values, fields, ord) ==
  IF ord = <<>> THEN values
  ELSE FormValues(ValuesSet(values, Head(ord), fields[Head(ord)].vals[1]), fields, Tail(ord))

\* A url.Values body as url.Values.
AsValues(fields) == [k \in DOMAIN fields |-> fields[k].vals]

\* The fields loop of the multipart branch, visiting the keys in the order
\* ord: a []byte is written as a file part (CreateFormFile(key, key)), a
\* string as a form field, and any other type ends the loop with an error.
RECURSIVE MultipartParts(_, _, _)
MultipartParts(parts, fields, ord) ==
  IF ord = <<>> THEN [err |-> NilErr, parts |-> parts]
  ELSE LET key == Head(ord)
           val == fields[key]
       IN  IF val.type = "[]byte"
           THEN MultipartParts(
                  Append(parts, [kind |-> "file", name |-> key, filename |-> key,
                                 content |-> val.vals[1]]),
                  fields, Tail(ord))
           ELSE IF val.type = "string"
           THEN MultipartParts(
                  Append(parts, [kind |-> "field", name |-> key, filename |-> <<>>,
                                 content |-> val.vals[1]]),
                  fields, Tail(ord))
           ELSE [err |-> Err(ErrMultipartField), parts |-> <<>>]

\* multipart.Writer.FormDataContentType()
FormDataContentType(boundary) ==
  MultipartFormData \o <<";", " ", "b", "o", "u", "n", "d", "a", "r", "y", "=">> \o boundary

\* ------------------------------------------------------------------------
\* Options (the option file) and the client (client.go)
\* ------------------------------------------------------------------------

\* A header map or a parameter map that may be nil.
NilMap == [isNil |-> TRUE, m |-> [k \in {} |-> <<>>]]
MapOf(f) == [isNil |-> FALSE, m |-> f]

\* An Option is the field it assigns and the value it was made with.
WithHeaders(h) == [kind |-> "headers", h |-> h, p |-> NilMap, b |-> NilBody]
WithParams(p) == [kind |-> "params", h |-> NilMap, p |-> p, b |-> NilBody]
WithBody(b) == [kind |-> "body", h |-> NilMap, p |-> NilMap, b |-> b]

\* &RequestOptions{}
ZeroOptions == [Headers |-> NilMap, Params |-> NilMap, Body |-> NilBody]

\* fn(o) for one Option.
ApplyOption(o, fn) ==
  IF fn.kind = "headers" THEN [o EXCEPT !.Headers = fn.h]
  ELSE IF fn.kind = "params" THEN [o EXCEPT !.Params = fn.p]
  ELSE [o EXCEPT !.Body = fn.b]

RECURSIVE ApplyOptions(_, _)
ApplyOptions(o, opts) ==
  IF opts = <<>> THEN o ELSE ApplyOptions(ApplyOption(o, Head(opts)), Tail(opts))

\* buildOptions: the options applied in order, then a nil Headers made empty.
buildOptions(opts) ==
  LET o == ApplyOptions(ZeroOptions, opts)
  IN  IF o.Headers.isNil THEN [o EXCEPT !.Headers = MapOf(EmptyHeader)] ELSE o

DefaultMaxIdleConnections == 5
DefaultTimeout == 0

\* A *Config that may be nil.
NilConfig ==
  [isNil |-> TRUE, Headers |-> NilMap, MaxIdleConnections |-> 0,
   ConnectionTimeout |-> 0, RequestTimeout |-> 0]

\* The *http.Client New builds from the defaults.
HTTPClient(defaults) ==
  [Timeout               |-> defaults.RequestTimeout,
   MaxIdleConnsPerHost   |-> defaults.MaxIdleConnections,
   ResponseHeaderTimeout |-> defaults.RequestTimeout,
   DialTimeout           |-> defaults.ConnectionTimeout]

\* The client of the given defaults: its Config and its http.Client.
ClientOf(defaults) ==
  [Headers            |-> defaults.Headers,
   MaxIdleConnections |-> defaults.MaxIdleConnections,
   ConnectionTimeout  |-> defaults.ConnectionTimeout,
   RequestTimeout     |-> defaults.RequestTimeout,
   httpClient         |-> HTTPClient(defaults)]

\* A New that takes a numeric field only when it is positive.
NewPositiveOnly(cfg) ==
  LET set == ~cfg.isNil
  IN  ClientOf(
        [Headers            |-> IF set /\ ~cfg.Headers.isNil THEN cfg.Headers.m ELSE EmptyHeader,
         MaxIdleConnections |-> IF set /\ cfg.MaxIdleConnections > 0
                                THEN cfg.MaxIdleConnections ELSE DefaultMaxIdleConnections,
         ConnectionTimeout  |-> IF set /\ cfg.ConnectionTimeout > 0
                                THEN cfg.ConnectionTimeout ELSE DefaultTimeout,
         RequestTimeout     |-> IF set /\ cfg.RequestTimeout > 0
                                THEN cfg.RequestTimeout ELSE DefaultTimeout])

\* New: every zero field of cfg (or all, for a nil cfg) takes its default.
New(cfg) ==
  LET set == ~cfg.isNil
  IN  ClientOf(
        [Headers            |-> IF set /\ ~cfg.Headers.isNil THEN cfg.Headers.m ELSE EmptyHeader,
         MaxIdleConnections |-> IF set /\ cfg.MaxIdleConnections # 0
                                THEN cfg.MaxIdleConnections ELSE DefaultMaxIdleConnections,
         ConnectionTimeout  |-> IF set /\ cfg.ConnectionTimeout # 0
                                THEN cfg.ConnectionTimeout ELSE DefaultTimeout,
         RequestTimeout     |-> IF set /\ cfg.RequestTimeout # 0
                                THEN cfg.RequestTimeout ELSE DefaultTimeout])

\* ------------------------------------------------------------------------
\* client.do (core.go), section by section
\* ------------------------------------------------------------------------

MethodGet == "GET"
MethodPost == "POST"
MethodPut == "PUT"
MethodPatch == "PATCH"
MethodDelete == "DELETE"

\* "Validate body usage": the condition under which do rejects the call.
RejectsBody(m, body) == m = MethodGet /\ body.type # "nil"

\* A default Content-Type that does not ask for a body.
DefaultContentTypeWithoutBody(h, body) ==
  IF HeaderGet(h, ContentTypeKey) = <<>>
  THEN HeaderSet(h, ContentTypeKey, ApplicationJSON)
  ELSE h

\* The default Content-Type of a request with a body and none set.
DefaultContentType(h, body) ==
  IF body.type # "nil" /\ HeaderGet(h, ContentTypeKey) = <<>>
  THEN HeaderSet(h, ContentTypeKey, ApplicationJSON)
  ELSE h

\* A base Content-Type that is cut but not lower-cased.
BaseContentTypeAsWritten(h) == Split(HeaderGet(h, ContentTypeKey), ";")[1]

\* "Determine base Content-Type": lower-cased piece before the first ";".
BaseContentType(h) == ToLower(Split(HeaderGet(h, ContentTypeKey), ";")[1])

\* The case of the switch that a base Content-Type selects.
Branch(contentType) ==
  IF contentType = ApplicationJSON THEN "json"
  ELSE IF contentType = FormURLEncoded THEN "form"
  ELSE IF contentType \in {ApplicationXML, TextXML} THEN "xml"
  ELSE IF contentType = MultipartFormData THEN "multipart"
  ELSE IF contentType = TextPlain THEN "text"
  ELSE IF contentType = OctetStream THEN "octet"
  ELSE "default"

Encoded(err, h, payload, body) == [err |-> err, headers |-> h, payload |-> payload, body |-> body]

\* A form branch without its default case: a body of another type is encoded
\* as no values.
EncodeFormAnyBody(h, body, ord) ==
  IF body.type = "map[string]string"
  THEN Encoded(NilErr, h,
               Payload("form", ValuesEncode(FormValues(EmptyValues, body.fields, ord)), body),
               body)
  ELSE IF body.type = "url.Values"
  THEN Encoded(NilErr, h, Payload("form", ValuesEncode(AsValues(body.fields)), body), body)
  ELSE Encoded(NilErr, h, Payload("form", <<>>, body), body)

\* case "application/x-www-form-urlencoded"
EncodeForm(h, body, ord) ==
  IF body.type = "map[string]string"
  THEN Encoded(NilErr, h,
               Payload("form", ValuesEncode(FormValues(EmptyValues, body.fields, ord)), body),
               body)
  ELSE IF body.type = "url.Values"
  THEN Encoded(NilErr, h, Payload("form", ValuesEncode(AsValues(body.fields)), body), body)
  ELSE Encoded(Err(ErrFormShape), h, NilPayload, body)

\* A multipart branch that leaves the Content-Type as the caller wrote it.
EncodeMultipartKeepHeader(h, body, ord, boundary) ==
  IF body.type # "map[string]any"
  THEN Encoded(Err(ErrMultipartShape), h, NilPayload, body)
  ELSE LET w == MultipartParts(<<>>, body.fields, ord)
       IN  IF w.err.type # "nil"
           THEN Encoded(w.err, h, NilPayload, body)
           ELSE Encoded(NilErr, h,
                        [Payload("multipart", <<>>, body) EXCEPT
                           !.parts = w.parts, !.boundary = boundary],
                        body)

\* case "multipart/form-data": the Content-Type is set to the writer's before
\* the body's type is looked at.
EncodeMultipart(h, body, ord, boundary) ==
  LET h1 == HeaderSet(h, ContentTypeKey, FormDataContentType(boundary))
  IN  IF body.type # "map[string]any"
      THEN Encoded(Err(ErrMultipartShape), h1, NilPayload, body)
      ELSE LET w == MultipartParts(<<>>, body.fields, ord)
           IN  IF w.err.type # "nil"
               THEN Encoded(w.err, h1, NilPayload, body)
               ELSE Encoded(NilErr, h1,
                            [Payload("multipart", <<>>, body) EXCEPT
                               !.parts = w.parts, !.boundary = boundary],
                            body)

\* case "application/octet-stream"
EncodeOctet(h, body) ==
  IF body.type = "[]byte"
  THEN Encoded(NilErr, h, Payload("raw", body.data, body), body)
  ELSE IF body.type = "io.Reader"
  THEN LET r == ReadAll(body)
       IN  IF r.err.type # "nil"
           THEN Encoded(r.err, h, NilPayload, r.reader)
           ELSE Encoded(NilErr, h, Payload("raw", r.data, body), r.reader)
  ELSE Encoded(Err(ErrOctetShape), h, NilPayload, body)

\* A marshaler's result as the result of the switch.
Marshaled(h, body, r) == Encoded(r.err, h, r.payload, body)

\* "Encode request body": the switch on the base Content-Type.
EncodeBody(h, body, ord, boundary) ==
  LET branch == Branch(BaseContentType(h))
  IN  IF branch = "json" THEN Marshaled(h, body, JSONMarshal(body))
      ELSE IF branch = "form" THEN EncodeForm(h, body, ord)
      ELSE IF branch = "xml" THEN Marshaled(h, body, XMLMarshal(body))
      ELSE IF branch = "multipart" THEN EncodeMultipart(h, body, ord, boundary)
      ELSE IF branch = "text" THEN Encoded(NilErr, h, Sprintf(body), body)
      ELSE IF branch = "octet" THEN EncodeOctet(h, body)
      ELSE Marshaled(h, body, JSONMarshal(body))

\* A do that encodes the body before it looks at the method.
ValidateAfterEncode(m, h, body, ord, boundary) ==
  LET h1 == DefaultContentType(h, body)
      e  == IF body.type # "nil"
            THEN EncodeBody(h1, body, ord, boundary)
            ELSE Encoded(NilErr, h1, NilPayload, body)
  IN  IF e.err.type # "nil" THEN e
      ELSE IF RejectsBody(m, body) THEN Encoded(Err(ErrGetBody), e.headers, NilPayload, e.body)
      ELSE e

\* Lines 46-159 of do: the GET check, the default Content-Type, and the
\* encoding of a body that is there.
ValidateAndEncode(m, h, body, ord, boundary) ==
  IF RejectsBody(m, body)
  THEN Encoded(Err(ErrGetBody), h, NilPayload, body)
  ELSE LET h1 == DefaultContentType(h, body)
       IN  IF body.type # "nil" /\ m # MethodGet
           THEN EncodeBody(h1, body, ord, boundary)
           ELSE Encoded(NilErr, h1, NilPayload, body)

\* "Append query parameters": with params the URL is parsed, every param
\* set over the URL's own query, and the URL written out again.
AppendParams(u, params, ord) ==
  IF params.isNil THEN [err |-> NilErr, uri |-> u]
  ELSE IF ParseFails(u) THEN [err |-> Err(ErrURLParse), uri |-> u]
  ELSE LET parsed == Parse(u)
           q      == SetParams(Query(parsed.RawQuery), params.m, ord)
       IN  [err |-> NilErr, uri |-> URLString([parsed EXCEPT !.RawQuery = ValuesEncode(q)])]

\* A request that was not built.
NilRequest ==
  [isNil |-> TRUE, Method |-> "", URL |-> Parse(<<>>), Header |-> EmptyHeader,
   Body |-> NilPayload]

\* http.NewRequest and req.Header = requestHeaders.
NewRequest(m, u, h, payload) ==
  IF ParseFails(u)
  THEN [err |-> Err(ErrNewRequest), req |-> NilRequest]
  ELSE [err |-> NilErr,
        req |-> [isNil |-> FALSE, Method |-> m, URL |-> Parse(u),
                 Header |-> h, Body |-> payload]]

\* ------------------------------------------------------------------------
\* Responses and the response helpers (response.go)
\* ------------------------------------------------------------------------

\* A response body stream (res.Body): the bytes the server sent, how many
\* were read, whether it was closed, and whether reading it ends in an
\* error instead of EOF.
Stream(data, fail) == [data |-> data, pos |-> 0, closed |-> FALSE, fail |-> fail]

NilResponse ==
  [isNil |-> TRUE, StatusCode |-> 0, Status |-> "", Header |-> EmptyHeader,
   Body |-> Stream(<<>>, FALSE), Request |-> NilRequest]

Response(code, status, header, body, req) ==
  [isNil |-> FALSE, StatusCode |-> code, Status |-> status, Header |-> header,
   Body |-> body, Request |-> req]

ErrBodyClosed == "http: read on closed response body"
ErrDecodeJSON == "httpx: failed to decode JSON"
ErrDecodeXML == "httpx: failed to decode XML"

\* io.ReadAll(res.Body): a closed body gives an error and no bytes.
ReadAllBody(b) ==
  IF b.closed
  THEN [data |-> <<>>, err |-> Err(ErrBodyClosed), body |-> b]
  ELSE [data |-> SubSeq(b.data, b.pos + 1, Len(b.data)),
        err  |-> IF b.fail THEN Err(ErrRead) ELSE NilErr,
        body |-> [b EXCEPT !.pos = Len(b.data)]]

\* res.Body.Close()
CloseBody(b) == [b EXCEPT !.closed = TRUE]

\* A status test that takes only 4xx and 5xx for errors.
IsErrorStatusFrom400(code) == code >= 400

\* The status test of readBodyWithStatus.
IsErrorStatus(code) == code < 200 \/ code > 299

\* &HttpError{...} of readBodyWithStatus.
MakeHttpError(r, body) ==
  [type |-> "HttpError", msg |-> "",
   http |-> [StatusCode |-> r.StatusCode, Status |-> r.Status, Body |-> body,
             Headers |-> r.Header, Method |-> r.Request.Method,
             URL |-> URLString(r.Request.URL)]]

\* A readBodyWithStatus that closes the body before its last return only,
\* not by defer.
readBodyWithStatusCloseAtEnd(r) ==
  LET rd  == ReadAllBody(r.Body)
      r1  == [r EXCEPT !.Body = rd.body]
  IN  IF rd.err.type # "nil"
      THEN [b |-> <<>>, isNil |-> TRUE, err |-> rd.err, res |-> r1]
      ELSE IF IsErrorStatus(r.StatusCode)
      THEN [b |-> <<>>, isNil |-> TRUE, err |-> MakeHttpError(r, rd.data), res |-> r1]
      ELSE [b |-> rd.data, isNil |-> FALSE, err |-> NilErr,
            res |-> [r EXCEPT !.Body = CloseBody(rd.body)]]

\* readBodyWithStatus: the bytes (isNil: a nil slice), the error, and the
\* response with its body read and, by the deferred Close, closed.
readBodyWithStatus(r) ==
  LET rd  == ReadAllBody(r.Body)
      r1  == [r EXCEPT !.Body = CloseBody(rd.body)]
  IN  IF rd.err.type # "nil"
      THEN [b |-> <<>>, isNil |-> TRUE, err |-> rd.err, res |-> r1]
      ELSE IF IsErrorStatus(r.StatusCode)
      THEN [b |-> <<>>, isNil |-> TRUE, err |-> MakeHttpError(r, rd.data), res |-> r1]
      ELSE [b |-> rd.data, isNil |-> FALSE, err |-> NilErr, res |-> r1]

\* A decoding target: its type, and the document decoded into it (zero: none).
ZeroValue(t) == [type |-> t, zero |-> TRUE, doc |-> <<>>]
Decoded(t, doc) == [type |-> t, zero |-> FALSE, doc |-> doc]

\* json.Unmarshal on bodies over the characters "1" and "a", "<", "/", ">":
\* a run of digits is a JSON number, anything else (nothing at all included)
\* is a syntax error; a number does not fit a struct target.
JSONUnmarshal(b, target) ==
  IF b = <<>> \/ \E i \in 1..Len(b) : b[i] \notin Digits
  THEN [err |-> Err("json: syntax error"), target |-> target]
  ELSE IF target.type # "int"
  THEN [err |-> Err("json: cannot unmarshal number"), target |-> target]
  ELSE [err |-> NilErr, target |-> Decoded(target.type, b)]

\* The characters of an XML name after its first (isNameByte, on this alphabet).
XMLNameBytes == LowerLetters \cup UpperLetters \cup Digits \cup {"_", ":", ".", "-"}

\* How many name bytes s starts with.
RECURSIVE NameLen(_)
NameLen(s) == IF s # <<>> /\ s[1] \in XMLNameBytes THEN 1 + NameLen(Tail(s)) ELSE 0

\* xml.Unmarshal on bodies shorter than seven characters: character data
\* before the first "<" is skipped; then a start tag must follow, a name
\* that starts with a letter and then "/>" (what follows the element is
\* not read).  No input at all, or only character data, is io.EOF; an
\* element opened with ">" cannot be closed within the length, and
\* anything else is a syntax error.
XMLUnmarshal(b, target) ==
  LET i    == IndexByte(b, "<")
      rest == SubSeq(b, i + 1, Len(b))
      n    == NameLen(rest)
  IN  IF i = 0 THEN [err |-> Err("EOF"), target |-> target]
      ELSE IF n > 0 /\ rest[1] \notin Digits /\ Len(rest) >= n + 2
              /\ rest[n + 1] = "/" /\ rest[n + 2] = ">"
      THEN [err |-> NilErr, target |-> Decoded(target.type, SubSeq(b, i, i + n + 2))]
      ELSE [err |-> Err("xml: syntax error"), target |-> target]

\* The result of a helper: the helper, the bytes or text returned (isNil: a
\* nil slice), the target as the caller gave it and as the helper left it,
\* and the error.
HelperResult(name, data, isNil, given, target, e) ==
  [helper |-> name, data |-> data, isNil |-> isNil, given |-> given, target |-> target,
   err |-> e]

NoResult == HelperResult("", <<>>, TRUE, ZeroValue(""), ZeroValue(""), NilErr)

\* (*client).Bytes
BytesOf(r) ==
  LET rb == readBodyWithStatus(r)
  IN  [res |-> rb.res, out |-> HelperResult("Bytes", rb.b, rb.isNil, ZeroValue(""), ZeroValue(""), rb.err)]

\* (*client).Text: "" on an error, else string(b).
TextOf(r) ==
  LET rb == readBodyWithStatus(r)
  IN  [res |-> rb.res,
       out |-> IF rb.err.type # "nil"
               THEN HelperResult("Text", <<>>, FALSE, ZeroValue(""), ZeroValue(""), rb.err)
               ELSE HelperResult("Text", rb.b, FALSE, ZeroValue(""), ZeroValue(""), NilErr)]

\* A JSON decoding that does not look at the length of the body.
DecodeJSONAlways(b, target) ==
  LET u == JSONUnmarshal(b, target)
  IN  IF u.err.type # "nil"
      THEN [err |-> Err(ErrDecodeJSON), target |-> u.target]
      ELSE u

\* The decoding of ReadJSON and JSON[T] after readBodyWithStatus: an empty
\* body is not decoded.
DecodeJSON(b, target) ==
  IF Len(b) = 0 THEN [err |-> NilErr, target |-> target]
  ELSE LET u == JSONUnmarshal(b, target)
       IN  IF u.err.type # "nil"
           THEN [err |-> Err(ErrDecodeJSON), target |-> u.target]
           ELSE u

\* The decoding of ReadXML and XML[T] after readBodyWithStatus.
DecodeXML(b, target) ==
  LET u == XMLUnmarshal(b, target)
  IN  IF u.err.type # "nil"
      THEN [err |-> Err(ErrDecodeXML), target |-> u.target]
      ELSE u

\* A typed JSON decode that decodes the body before it looks at the status.
JSONOfDecodeFirst(name, r, target) ==
  LET rd == ReadAllBody(r.Body)
      r1 == [r EXCEPT !.Body = CloseBody(rd.body)]
      d  == DecodeJSON(rd.data, target)
  IN  IF rd.err.type # "nil"
      THEN [res |-> r1, out |-> HelperResult(name, <<>>, TRUE, target, target, rd.err)]
      ELSE IF d.err.type # "nil"
      THEN [res |-> r1, out |-> HelperResult(name, <<>>, TRUE, target, d.target, d.err)]
      ELSE IF IsErrorStatus(r.StatusCode)
      THEN [res |-> r1,
            out |-> HelperResult(name, <<>>, TRUE, target, target, MakeHttpError(r, rd.data))]
      ELSE [res |-> r1, out |-> HelperResult(name, <<>>, TRUE, target, d.target, NilErr)]

\* (*client).ReadJSON and JSON[T] (name tells them apart; JSON[T] starts
\* from the zero value of T).
JSONOf(name, r, target) ==
  LET rb == readBodyWithStatus(r)
  IN  IF rb.err.type # "nil"
      THEN [res |-> rb.res, out |-> HelperResult(name, <<>>, TRUE, target, target, rb.err)]
      ELSE LET d == DecodeJSON(rb.b, target)
           IN  [res |-> rb.res, out |-> HelperResult(name, <<>>, TRUE, target, d.target, d.err)]

\* (*client).ReadXML and XML[T].
XMLOf(name, r, target) ==
  LET rb == readBodyWithStatus(r)
  IN  IF rb.err.type # "nil"
      THEN [res |-> rb.res, out |-> HelperResult(name, <<>>, TRUE, target, target, rb.err)]
      ELSE LET d == DecodeXML(rb.b, target)
           IN  [res |-> rb.res, out |-> HelperResult(name, <<>>, TRUE, target, d.target, d.err)]

\* ------------------------------------------------------------------------
\* Bounds and inputs
\* ------------------------------------------------------------------------

\* The longest query string of an input URL, in "&"-separated pieces.
MaxQueryPieces == 2
\* The longest generated response body, in bytes.
MaxBodyLen == 3

\* All sequences over S of length at most n.
RECURSIVE SeqsUpTo(_, _)
SeqsUpTo(S, n) ==
  IF n = 0 THEN {<<>>}
  ELSE LET shorter == SeqsUpTo(S, n - 1)
       IN  shorter \cup {Append(t, x) : t \in {u \in shorter : Len(u) = n - 1}, x \in S}

\* A map literal: the keys ks[i] with the values vs[i].
MapLit(ks, vs) == [k \in {ks[i] : i \in 1..Len(ks)} |-> vs[CHOOSE i \in 1..Len(ks) : ks[i] = k]]

KeyXA == <<"X", "-", "A">>
Charset == <<";", " ", "c", "h", "a", "r", "s", "e", "t", "=", "u", "t", "f", "-", "8">>

\* The Config values given to New.
ConfigInputs ==
  { NilConfig,
    [NilConfig EXCEPT !.isNil = FALSE, !.MaxIdleConnections = 10,
       !.Headers = MapOf(MapLit(<<ToLower(KeyXA), ContentTypeKey>>,
                                <<(<< <<"d", "1">>, <<"d", "2">> >>), <<TextPlain>> >>))] }

\* Content-Type values a request may carry.
ContentTypeInputs ==
  { ApplicationJSON, ToUpper(ApplicationXML), TextXML \o Charset, FormURLEncoded,
    <<"M">> \o Tail(MultipartFormData) \o <<";", " ", "b", "o", "u", "n", "d", "a", "r", "y", "=", "x">>,
    ToUpper(TextPlain) \o Charset, TextPlain \o <<" ">> \o Charset, OctetStream \o <<";">>,
    <<"i", "m", "a", "g", "e", "/", "p", "n", "g">>, <<>> }

\* The header maps given to WithHeaders: one Content-Type each (under the
\* canonical key or a lower-case one), and maps that share X-A with the
\* client's headers: one value, two entries whose keys differ in case only,
\* and an entry without values.
HeaderInputs ==
  { MapOf(MapLit(<<ContentTypeKey>>, << <<ct>> >>)) : ct \in ContentTypeInputs }
    \cup { MapOf(MapLit(<<ToLower(ContentTypeKey)>>, << <<ct>> >>)) : ct \in {ApplicationXML, OctetStream} }
    \cup { MapOf(MapLit(<<KeyXA>>, << <<(<<"r">>)>> >>)),
           MapOf(MapLit(<<ToLower(KeyXA), KeyXA>>,
                        << (<< <<"r", "1">>, <<"r", "2">> >>), (<< <<"r", "3">> >>) >>)),
           MapOf(MapLit(<<KeyXA>>, << <<>> >>)),
           NilMap }

StringField(v) == [type |-> "string", vals |-> <<v>>]
BytesField(v) == [type |-> "[]byte", vals |-> <<v>>]

\* The values given to WithBody.
BodyInputs ==
  { DataBody("string", <<"a", " ", "b">>),
    DataBody("[]byte", <<"1", "2">>),
    ReaderBody(<<"1", "2">>, FALSE),
    ReaderBody(<<"1", "2">>, TRUE),
    MapBody("map[string]string",
            MapLit(<< <<"a">>, <<"b">> >>, <<StringField(<<"1", " ", "2">>), StringField(<<"&">>)>>)),
    MapBody("url.Values",
            MapLit(<< <<"a">> >>, << [type |-> "[]string", vals |-> << <<"1">>, <<"2">> >>] >>)),
    MapBody("map[string]any",
            MapLit(<< <<"u">>, <<"f">> >>, <<StringField(<<"J">>), BytesField(<<"1", "2">>)>>)),
    MapBody("map[string]any",
            MapLit(<< <<"u">>, <<"n">> >>, <<StringField(<<"J">>), [type |-> "int", vals |-> << <<"1">> >>]>>)),
    DataBody("struct", <<>>),
    DataBody("chan", <<>>) }

BaseURL == <<"h", "t", "t", "p", ":", "/", "/", "h", "/", "p">>

\* The pieces input query strings are made of: plain pairs (a twice), an
\* escaped value, a piece with a semicolon, a bad escape, a key alone.
QueryPieces ==
  { <<"a", "=", "1">>, <<"a", "=", "3">>, <<"b", "=", "%", "2", "6", "+">>,
    <<"c", "=", "1", ";", "d", "=", "2">>, <<"e", "=", "%", "z", "z">>, <<"f">> }

\* URLs that url.Parse refuses.
BadURLs == { BaseURL \o <<"\n">>, <<"h", "t", "t", "p", ":", "/", "/", "h", "/", "%", "z">> }

\* The input URLs with every query string of at most MaxQueryPieces pieces.
QueryURLs ==
  { IF ps = <<>> THEN BaseURL ELSE BaseURL \o <<"?">> \o Join(ps, <<"&">>) :
      ps \in SeqsUpTo(QueryPieces, MaxQueryPieces) }
    \cup { BaseURL \o <<"?">> }

\* The parameter maps given to WithParams.
ParamInputs ==
  { NilMap, MapOf(EmptyValues),
    MapOf(MapLit(<< <<"a">> >>, << <<"9">> >>)),
    MapOf(MapLit(<< <<"z">> >>, << <<"x", " ", "y">> >>)),
    MapOf(MapLit(<< <<"a">>, <<"b">> >>, << <<"9">>, <<"&">> >>)) }

\* The option lists of the calls: at most one option of each kind.
OptionLists(hs, ps, bs) ==
  { h \o p \o b :
      h \in {<<>>} \cup {<<WithHeaders(x)>> : x \in hs},
      p \in {<<>>} \cup {<<WithParams(x)>> : x \in ps},
      b \in {<<>>} \cup {<<WithBody(x)>> : x \in bs} }

\* The calls of the model: every header map with every body, on a URL with
\* a query and on one that does not parse, with and without parameters; and
\* every URL with every parameter map, with and without a body.
CallInputs ==
  { [url |-> u, opts |-> ol] :
      u \in {BaseURL \o <<"?", "a", "=", "1">>, BaseURL \o <<"\n">>},
      ol \in OptionLists(HeaderInputs, {MapOf(MapLit(<< <<"b">> >>, << <<"2">> >>))}, BodyInputs) }
  \cup
  { [url |-> u, opts |-> ol] :
      u \in QueryURLs \cup BadURLs,
      ol \in OptionLists({}, ParamInputs, {DataBody("string", <<"a", " ", "b">>)}) }

\* The boundaries multipart.NewWriter may draw.
Boundaries == { <<"b", "1">>, <<"b", "2">> }

\* What the transport may answer: a failure, or a response with a status.
StatusText(code) ==
  CASE code = 199 -> "199 "
    [] code = 200 -> "200 OK"
    [] code = 204 -> "204 No Content"
    [] code = 299 -> "299 "
    [] code = 300 -> "300 Multiple Choices"
    [] code = 404 -> "404 Not Found"
    [] OTHER -> ""

ResponseHeader == MapLit(<< <<"X", "-", "S">> >>, << << <<"1">> >> >>)

TransportStatuses == {200, 404}

\* The responses handed to the helpers.
Statuses == {199, 200, 204, 299, 300, 404}
ResponseBodies ==
  SeqsUpTo({"1", "a"}, MaxBodyLen)
    \cup { <<"<", "a", "/", ">">>, <<"<", "a", ">">>, <<"<", "/", "a", ">">>, <<"1", "<", "a", "1", "/", ">">> }
RequestInputs ==
  { NewRequest(MethodGet, BaseURL, EmptyHeader, NilPayload).req,
    NewRequest(MethodPost, BaseURL \o <<"?", "a", "=", "1">>, EmptyHeader, NilPayload).req }
ResponseInputs ==
  { Response(code, StatusText(code), ResponseHeader, Stream(d, fail), rq) :
      code \in Statuses, d \in ResponseBodies, fail \in BOOLEAN, rq \in RequestInputs }

TargetTypes == {"int", "struct"}
\* The targets given to ReadJSON and ReadXML: fresh, or holding a document.
TargetInputs == {ZeroValue(t) : t \in TargetTypes} \cup {Decoded(t, <<"1", "1", "1", "1">>) : t \in TargetTypes}

\* ------------------------------------------------------------------------
\* State
\* ------------------------------------------------------------------------

VARIABLES
  c,               \* the client: its Config, as New stored it
  pc,              \* where the verb call in progress stands in do
  method,          \* the method of the call
  url,             \* the URL the caller gave
  uri,             \* do's uri: the URL given, then the one with the parameters
  o,               \* the call's *RequestOptions
  requestHeaders,  \* do's requestHeaders
  requestBody,     \* do's requestBody
  req,             \* the *http.Request built
  sent,            \* how often the call has executed the transport
  res,             \* the *http.Response the call returned / a helper is given
  err,             \* the error the call returned
  out,             \* what the last response helper returned
  config,          \* the *Config that New was given
  mem,             \* the maps shared by reference: location -> content
  calls            \* the verb calls running concurrently: call -> its locals

vars ==
  <<c, pc, method, url, uri, o, requestHeaders, requestBody, req, sent, res, err, out,
    config, mem, calls>>

\* The state of the concurrent calls.
sharedVars == <<mem, calls>>

callVars == <<method, url, uri, o, requestHeaders, requestBody, req, sent, err>>

\* A client made by New, with no call made.
InitClient ==
  /\ config \in ConfigInputs
  /\ c = New(config)
  /\ pc = "idle"
  /\ method = ""
  /\ url = <<>>
  /\ uri = <<>>
  /\ o = ZeroOptions
  /\ requestHeaders = EmptyHeader
  /\ requestBody = NilPayload
  /\ req = NilRequest
  /\ sent = 0
  /\ err = NilErr
  /\ out = NoResult

\* No calls run concurrently.
NoCalls == mem = <<>> /\ calls = <<>>

Init == InitClient /\ NoCalls /\ res = NilResponse

\* ------------------------------------------------------------------------
\* A verb call: Get/Post/Put/Patch/Delete enter do, which runs its sections
\* in order and returns at the first error
\* ------------------------------------------------------------------------

\* c.do(m, url, buildOptions(opts)) up to the merged headers (lines 25-44).
\* The two range loops visit their map in some order.
Call(m) ==
  /\ pc = "idle"
  /\ \E in \in CallInputs :
       LET opts == buildOptions(in.opts)
           oh   == IF opts.Headers.isNil THEN EmptyHeader ELSE opts.Headers.m
       IN  /\ method' = m
           /\ url' = in.url
           /\ uri' = in.url
           /\ o' = opts
           /\ \E ordC \in Orders(DOMAIN c.Headers), ordO \in Orders(DOMAIN oh) :
                requestHeaders' = MergeHeaders(c.Headers, oh, ordC, ordO)
  /\ requestBody' = NilPayload
  /\ req' = NilRequest
  /\ sent' = 0
  /\ res' = NilResponse
  /\ err' = NilErr
  /\ pc' = "encode"
  /\ UNCHANGED <<c, out, config, mem, calls>>

Get == Call(MethodGet)
Post == Call(MethodPost)
Put == Call(MethodPut)
Patch == Call(MethodPatch)
Delete == Call(MethodDelete)

\* Where do goes on after a section that ended with the error e.
AfterSection(e, next) == IF e.type # "nil" THEN "done" ELSE next

\* Lines 46-159: body validation and encoding.  The multipart writer draws
\* a boundary, and the loops over a map body visit it in some order.
EncodeRequestBody ==
  /\ pc = "encode"
  /\ \E ord \in Orders(DOMAIN o.Body.fields), boundary \in Boundaries :
       LET r == ValidateAndEncode(method, requestHeaders, o.Body, ord, boundary)
       IN  /\ requestHeaders' = r.headers
           /\ requestBody' = r.payload
           /\ o' = [o EXCEPT !.Body = r.body]
           /\ err' = r.err
           /\ pc' = AfterSection(r.err, "query")
  /\ UNCHANGED <<c, method, url, uri, req, sent, res, out, config, mem, calls>>

\* Lines 161-195: the query parameters and the request.
BuildRequest ==
  /\ pc = "query"
  /\ \E ord \in Orders(DOMAIN o.Params.m) :
       LET a == AppendParams(uri, o.Params, ord)
           n == NewRequest(method, a.uri, requestHeaders, requestBody)
       IN  IF a.err.type # "nil"
           THEN /\ err' = a.err
                /\ pc' = "done"
                /\ UNCHANGED <<uri, req>>
           ELSE /\ uri' = a.uri
                /\ req' = n.req
                /\ err' = n.err
                /\ pc' = AfterSection(n.err, "execute")
  /\ UNCHANGED <<c, method, url, o, requestHeaders, requestBody, sent, res, out,
                 config, mem, calls>>

\* A do that runs the transport again after a transport failure.
AtExecuteOrFailed == pc = "execute" \/ (pc = "done" /\ sent = 1 /\ err = Err(ErrTransport))

\* Whether do is at its last line.
AtExecute == pc = "execute"

\* Line 200: c.httpClient.Do(req), whose result is do's.
Execute ==
  /\ AtExecute
  /\ sent' = sent + 1
  /\ \/ /\ res' = NilResponse
        /\ err' = Err(ErrTransport)
     \/ \E code \in TransportStatuses :
          /\ res' = Response(code, StatusText(code), ResponseHeader, Stream(<<"1">>, FALSE), req)
          /\ err' = NilErr
  /\ pc' = "done"
  /\ UNCHANGED <<c, method, url, uri, o, requestHeaders, requestBody, req, out,
                 config, mem, calls>>

\* The caller has the result of the call and do's locals are gone: the
\* client is ready for its next call.
Return ==
  /\ pc = "done"
  /\ pc' = "idle"
  /\ method' = ""
  /\ url' = <<>>
  /\ uri' = <<>>
  /\ o' = ZeroOptions
  /\ requestHeaders' = EmptyHeader
  /\ requestBody' = NilPayload
  /\ req' = NilRequest
  /\ sent' = 0
  /\ res' = NilResponse
  /\ err' = NilErr
  /\ UNCHANGED <<c, out, config, mem, calls>>

Next ==
  Get \/ Post \/ Put \/ Patch \/ Delete \/ EncodeRequestBody \/ BuildRequest \/ Execute \/ Return

Spec == Init /\ [][Next]_vars

\* ------------------------------------------------------------------------
\* The response helpers, on a response the transport handed over
\* ------------------------------------------------------------------------

InitResponse == InitClient /\ NoCalls /\ res \in ResponseInputs

Helper(r) ==
  /\ ~res.isNil
  /\ res' = r.res
  /\ out' = r.out
  /\ UNCHANGED <<c, pc, config, mem, calls>>
  /\ UNCHANGED callVars

Bytes == Helper(BytesOf(res))
Text == Helper(TextOf(res))
ReadJSON == \E target \in TargetInputs : Helper(JSONOf("ReadJSON", res, target))
JSON == \E t \in TargetTypes : Helper(JSONOf("JSON", res, ZeroValue(t)))
ReadXML == \E target \in TargetInputs : Helper(XMLOf("ReadXML", res, target))
XML == \E t \in TargetTypes : Helper(XMLOf("XML", res, ZeroValue(t)))

NextResponse == Bytes \/ Text \/ ReadJSON \/ JSON \/ ReadXML \/ XML

SpecResponse == InitResponse /\ [][NextResponse]_vars

\* ------------------------------------------------------------------------
\* New, on a config the caller made
\* ------------------------------------------------------------------------

\* No client yet.
NoClient ==
  ClientOf([Headers |-> EmptyHeader, MaxIdleConnections |-> 0, ConnectionTimeout |-> 0,
            RequestTimeout |-> 0])

\* The Config values of the calls of New: nil, or each numeric field zero,
\* negative or positive and the headers nil, empty or filled.
NewInputs ==
  {NilConfig} \cup
  { [isNil |-> FALSE, Headers |-> h, MaxIdleConnections |-> n,
     ConnectionTimeout |-> ct, RequestTimeout |-> rt] :
      h \in {NilMap, MapOf(EmptyHeader), MapOf(MapLit(<<KeyXA>>, << <<(<<"d">>)>> >>))},
      n \in {0, 0 - 1, 10}, ct \in {0, 0 - 1, 3}, rt \in {0, 0 - 1, 7} }

InitNew ==
  /\ config \in NewInputs
  /\ c = NoClient
  /\ mem = <<>>
  /\ calls = <<>>
  /\ pc = "new"
  /\ method = ""
  /\ url = <<>>
  /\ uri = <<>>
  /\ o = ZeroOptions
  /\ requestHeaders = EmptyHeader
  /\ requestBody = NilPayload
  /\ req = NilRequest
  /\ sent = 0
  /\ res = NilResponse
  /\ err = NilErr
  /\ out = NoResult

\* c := New(config)
NewClient ==
  /\ pc = "new"
  /\ c' = New(config)
  /\ pc' = "idle"
  /\ UNCHANGED <<config, mem, calls, out, res>>
  /\ UNCHANGED callVars

NextNew == NewClient

SpecNew == InitNew /\ [][NextNew]_vars

\* ------------------------------------------------------------------------
\* Verb calls running concurrently on one client.  The maps of Go are
\* references: mem holds the content of each, under the location of the
\* variable or field that first held it.
\* ------------------------------------------------------------------------

\* The calls that may run at a time.
Calls == {"A", "B"}

\* The locations of the maps.
NoLoc == <<"nil", "">>
ClientHeaders == <<"c.Headers", "">>
CallerHeaders(k) == <<"WithHeaders", k>>
CallerParams == <<"WithParams", "">>
MadeHeaders(i) == <<"o.Headers", i>>
ResponseHeaders(i) == <<"res.Header", i>>

\* Where the requestHeaders of a call are held, if do kept them in a field
\* of the client.
RequestHeadersInField(i, opts) == <<"c.requestHeaders", "">>

\* The same, if do took the client's map for its requestHeaders.
RequestHeadersInClient(i, opts) == ClientHeaders

\* The same, if do took the map of the options for its requestHeaders.
RequestHeadersInOptions(i, opts) == opts.Headers

\* requestHeaders := make(http.Header): a map of the call's own.
RequestHeadersOf(i, opts) == <<"requestHeaders", i>>

\* Headers: res.Header.Clone() without the Clone.
ErrorHeadersShared(i, src) == src

\* Headers: res.Header.Clone(): a map of the HttpError's own.
ErrorHeadersOf(i, src) == <<"HttpError.Headers", i>>

\* mem with the content v at loc.
Store(m, loc, v) == [l \in DOMAIN m \cup {loc} |-> IF l = loc THEN v ELSE m[l]]

\* mem without the locations in locs.
Free(m, locs) == [l \in DOMAIN m \ locs |-> m[l]]

\* The maps the caller holds and gives to WithHeaders and WithParams.
SharedHeaderMaps ==
  MapLit(<<"1", "2">>,
         << MapLit(<<ToLower(KeyXA)>>, << <<(<<"r">>), (<<"s">>)>> >>),
            MapLit(<<ToLower(ContentTypeKey)>>, << <<MultipartFormData>> >>) >>)
SharedParams == MapLit(<< <<"b">> >>, << <<"2">> >>)

\* The calls: the method, the URL, the maps given by reference (NoLoc:
\* none) and the body.
SharedCall(m, u, h, p, b) == [method |-> m, url |-> u, headers |-> h, params |-> p, body |-> b]
SharedCallInputs ==
  LET u      == BaseURL \o <<"?", "a", "=", "1">>
      fields == MapBody("map[string]any",
                        MapLit(<< <<"u">>, <<"f">> >>,
                               <<StringField(<<"J">>), BytesField(<<"1", "2">>)>>))
      text   == DataBody("string", <<"a", " ", "b">>)
  IN  { SharedCall(MethodGet, u, NoLoc, CallerParams, NilBody),
        SharedCall(MethodPost, u, CallerHeaders("1"), NoLoc, fields),
        SharedCall(MethodPut, u, CallerHeaders("2"), CallerParams, fields),
        SharedCall(MethodPatch, BaseURL, NoLoc, NoLoc, text),
        SharedCall(MethodGet, u, CallerHeaders("1"), NoLoc, text),
        SharedCall(MethodDelete, BaseURL \o <<"\n">>, CallerHeaders("1"), NoLoc, NilBody) }

\* The locals of a call that is not running.
IdleCall ==
  [pc |-> "idle", in |-> SharedCall("", <<>>, NoLoc, NoLoc, NilBody),
   uri |-> <<>>, o |-> [Headers |-> NoLoc, Params |-> NoLoc, Body |-> NilBody],
   requestHeaders |-> NoLoc, requestBody |-> NilPayload, req |-> NilRequest,
   sent |-> NilRequest, res |-> NilResponse, err |-> NilErr, out |-> NoResult,
   changed |-> ""]

\* A map given by reference, as the map value the options held.
Deref(loc) == IF loc = NoLoc THEN NilMap ELSE MapOf(mem[loc])

\* The client made, the caller's maps filled, and no call running.
InitShared ==
  /\ InitClient
  /\ res = NilResponse
  /\ mem = [l \in {ClientHeaders, CallerHeaders("1"), CallerHeaders("2"), CallerParams} |->
              IF l = ClientHeaders THEN c.Headers
              ELSE IF l = CallerParams THEN SharedParams
              ELSE SharedHeaderMaps[l[2]]]
  /\ calls = [i \in Calls |-> IdleCall]

\* Only the locals of the call i and the maps change.
OnlyCall(i, call) ==
  /\ calls' = [calls EXCEPT ![i] = call]
  /\ UNCHANGED <<c, pc, config, res, out>>
  /\ UNCHANGED callVars

\* A verb method calls do: buildOptions (a nil Headers is made a map), then
\* lines 25-44, the merge of the headers into the call's requestHeaders.
StartCall(i) ==
  /\ calls[i].pc = "idle"
  /\ \E in \in SharedCallInputs :
       LET made == in.headers = NoLoc
           opts == [Headers |-> IF made THEN MadeHeaders(i) ELSE in.headers,
                    Params |-> in.params, Body |-> in.body]
           m1   == IF made THEN Store(mem, MadeHeaders(i), EmptyHeader) ELSE mem
           rh   == RequestHeadersOf(i, opts)
       IN  \E ordC \in Orders(DOMAIN m1[ClientHeaders]), ordO \in Orders(DOMAIN m1[opts.Headers]) :
             /\ mem' = Store(m1, rh, MergeHeaders(m1[ClientHeaders], m1[opts.Headers], ordC, ordO))
             /\ OnlyCall(i, [IdleCall EXCEPT !.pc = "encode", !.in = in, !.uri = in.url,
                                             !.o = opts, !.requestHeaders = rh])

\* Lines 46-159 of the call i.
EncodeCall(i) ==
  LET call == calls[i]
  IN  /\ call.pc = "encode"
      /\ \E ord \in Orders(DOMAIN call.o.Body.fields), boundary \in Boundaries :
           LET r == ValidateAndEncode(call.in.method, mem[call.requestHeaders], call.o.Body,
                                      ord, boundary)
           IN  /\ mem' = Store(mem, call.requestHeaders, r.headers)
               /\ OnlyCall(i, [call EXCEPT !.requestBody = r.payload, !.o.Body = r.body,
                                           !.err = r.err, !.pc = AfterSection(r.err, "query")])

\* Lines 161-195 of the call i; req.Header is the map of requestHeaders.
BuildCall(i) ==
  LET call == calls[i]
  IN  /\ call.pc = "query"
      /\ \E ord \in Orders(DOMAIN Deref(call.o.Params).m) :
           LET a == AppendParams(call.uri, Deref(call.o.Params), ord)
               n == NewRequest(call.in.method, a.uri, call.requestHeaders, call.requestBody)
           IN  IF a.err.type # "nil"
               THEN OnlyCall(i, [call EXCEPT !.err = a.err, !.pc = "done"])
               ELSE OnlyCall(i, [call EXCEPT !.uri = a.uri, !.req = n.req, !.err = n.err,
                                            !.pc = AfterSection(n.err, "execute")])
      /\ UNCHANGED mem

\* Line 200 of the call i: the request goes out with the headers its map
\* holds now (sent), and the transport fails or answers; the headers of a
\* response are a map of its own.
ExecuteCall(i) ==
  LET call == calls[i]
      wire == [call.req EXCEPT !.Header = mem[call.req.Header]]
  IN  /\ call.pc = "execute"
      /\ \/ /\ OnlyCall(i, [call EXCEPT !.sent = wire, !.err = Err(ErrTransport), !.pc = "done"])
            /\ UNCHANGED mem
         \/ \E code \in TransportStatuses :
              /\ mem' = Store(mem, ResponseHeaders(i), ResponseHeader)
              /\ OnlyCall(i, [call EXCEPT
                     !.sent = wire, !.pc = "done",
                     !.res = Response(code, StatusText(code), ResponseHeaders(i),
                                      Stream(<<"1">>, FALSE), call.req)])

\* The caller passes the response of the call i to a response helper.  The
\* Headers of an HttpError are the Clone of the response's.
ReadCall(i) ==
  LET call == calls[i]
      rv   == [call.res EXCEPT !.Header = mem[call.res.Header]]
  IN  /\ call.pc = "done"
      /\ ~call.res.isNil
      /\ \E r \in {BytesOf(rv), JSONOf("JSON", rv, ZeroValue("int")),
                    XMLOf("ReadXML", rv, ZeroValue("int"))} :
           LET eh   == ErrorHeadersOf(i, call.res.Header)
               isH  == r.out.err.type = "HttpError"
               res1 == [r.res EXCEPT !.Header = call.res.Header]
           IN  /\ mem' = IF isH THEN Store(mem, eh, r.out.err.http.Headers) ELSE mem
               /\ OnlyCall(i, [call EXCEPT
                     !.pc = "read", !.res = res1,
                     !.out = IF isH THEN [r.out EXCEPT !.err.http.Headers = eh] ELSE r.out])

\* The caller has an HttpError of the call i.
HasHttpError(i) ==
  calls[i].pc = "read" /\ calls[i].out.err.type = "HttpError" /\ calls[i].changed = ""

\* The caller sets a header in the map of the response.
ChangeResponseHeader(i) ==
  LET loc == calls[i].res.Header
  IN  /\ HasHttpError(i)
      /\ mem' = Store(mem, loc, HeaderSet(mem[loc], KeyXA, <<"w">>))
      /\ OnlyCall(i, [calls[i] EXCEPT !.changed = "response"])

\* The caller sets a header in the map of the HttpError.
ChangeErrorHeader(i) ==
  LET loc == calls[i].out.err.http.Headers
  IN  /\ HasHttpError(i)
      /\ mem' = Store(mem, loc, HeaderSet(mem[loc], KeyXA, <<"w">>))
      /\ OnlyCall(i, [calls[i] EXCEPT !.changed = "error"])

\* The caller is done with the call i: its locals and the maps made for it
\* are gone.
FinishCall(i) ==
  /\ calls[i].pc \in {"done", "read"}
  /\ mem' = Free(mem, {l \in DOMAIN mem : l[2] = i})
  /\ OnlyCall(i, IdleCall)

NextShared ==
  \E i \in Calls :
    \/ StartCall(i)
    \/ EncodeCall(i)
    \/ BuildCall(i)
    \/ ExecuteCall(i)
    \/ ReadCall(i)
    \/ ChangeResponseHeader(i)
    \/ ChangeErrorHeader(i)
    \/ FinishCall(i)

SpecShared == InitShared /\ [][NextShared]_vars

\* ------------------------------------------------------------------------
\* The caller keeps the Config it gave to New, and changes it between the
\* calls of the client
\* ------------------------------------------------------------------------

\* The map in the Headers field of the caller's Config.  New stores that
\* map in the client (defaults.Headers = cfg.Headers), and the copy of
\* *defaults into the client copies the reference: the caller's map and the
\* client's are one map.
ConfigHeaders ==
  IF config.isNil \/ config.Headers.isNil THEN NoLoc ELSE ClientHeaders

KeyXB == <<"X", "-", "B">>

\* The caller assigns to a field of its Config (the client holds a copy of
\* the struct).
ChangeConfigValue ==
  /\ ~config.isNil
  /\ config.MaxIdleConnections = c.MaxIdleConnections
  /\ config' = [config EXCEPT !.MaxIdleConnections = @ + 1]
  /\ UNCHANGED <<c, pc, res, out, mem, calls>>
  /\ UNCHANGED callVars

\* The caller sets a header in the map of its Config.
ChangeConfigHeader ==
  /\ ConfigHeaders # NoLoc
  /\ KeyXB \notin DOMAIN mem[ConfigHeaders]
  /\ mem' = Store(mem, ConfigHeaders, HeaderSet(mem[ConfigHeaders], KeyXB, <<"w">>))
  /\ UNCHANGED <<c, pc, config, res, out, calls>>
  /\ UNCHANGED callVars

\* The calls of the client, one at a time, and the caller's changes.
NextConfig ==
  \/ ChangeConfigValue
  \/ ChangeConfigHeader
  \/ StartCall("A")
  \/ EncodeCall("A")
  \/ BuildCall("A")
  \/ ExecuteCall("A")
  \/ FinishCall("A")

SpecConfig == InitShared /\ [][NextConfig]_vars

\* ------------------------------------------------------------------------
\* Properties
\* ------------------------------------------------------------------------

\* The call in progress has returned.
Returned == pc = "done"

\* The call in progress was given a body.
HasBody == o.Body.type # "nil"

\* C1: a GET or DELETE call given a body returns an error and no response,
\* whatever else it was given.  The claim is read at its weakest: any error
\* that do makes before the transport runs counts as the invalid-request
\* error.
C1_GetDeleteBodyRejected ==
  (Returned /\ method \in {MethodGet, MethodDelete} /\ HasBody)
    => (res.isNil /\ err.type = "error" /\ sent = 0)

\* The keys of the request's headers that are k up to case and have a value.
SameKeyOverrides(k) ==
  {j \in DOMAIN o.Headers.m :
     CanonicalMIMEHeaderKey(j) = CanonicalMIMEHeaderKey(k) /\ Len(o.Headers.m[j]) > 0}

\* A key the client's headers and the request's headers share, case aside,
\* the request's entry having a value.
SharedKeys ==
  {k \in DOMAIN o.Headers.m :
     /\ Len(o.Headers.m[k]) > 0
     /\ \E j \in DOMAIN c.Headers : CanonicalMIMEHeaderKey(j) = CanonicalMIMEHeaderKey(k)}

\* The outgoing request carries, for k, the first value of a request entry.
CarriesOverride(k) ==
  LET ck == CanonicalMIMEHeaderKey(k)
  IN  /\ ck \in DOMAIN req.Header
      /\ \E j \in SameKeyOverrides(k) : req.Header[ck] = <<o.Headers.m[j][1]>>

\* C2 as claimed: for every key the client's and the request's headers share,
\* the outgoing request carries the request's value.
C2_OverrideWinsAlways ==
  (~req.isNil) => \A k \in SharedKeys : CarriesOverride(k)

\* C2, amended: for every shared key whose request entry has a value, the
\* outgoing request carries the first value of a request entry, except for
\* Content-Type on a request with a body: an empty value is replaced by
\* application/json, and the multipart branch puts the writer's
\* "multipart/form-data; boundary=..." in its place.
C2_OverrideWins ==
  (~req.isNil) =>
    \A k \in SharedKeys :
      IF CanonicalMIMEHeaderKey(k) = ContentTypeKey /\ req.Body.enc = "multipart"
      THEN req.Header[ContentTypeKey] = <<FormDataContentType(req.Body.boundary)>>
      ELSE IF /\ CanonicalMIMEHeaderKey(k) = ContentTypeKey
              /\ ~req.Body.isNil
              /\ \A j \in SameKeyOverrides(k) : o.Headers.m[j][1] = <<>>
      THEN req.Header[ContentTypeKey] = <<ApplicationJSON>>
      ELSE CarriesOverride(k)

\* A request went out whose headers share X-A with the client's under keys
\* of different case, with the request's value and not the client's.
C2_Witness ==
  /\ ~req.isNil
  /\ KeyXA \in DOMAIN o.Headers.m
  /\ ToLower(KeyXA) \in DOMAIN c.Headers
  /\ KeyXA \in SharedKeys
  /\ req.Header[KeyXA] = << <<"r">> >>
  /\ c.Headers[ToLower(KeyXA)][1] # <<"r">>

\* The Content-Type a call resolves to, from what it was given: the
\* request's Content-Type entry if it has a value, else the client's; and
\* application/json for a body when that is empty.
GivenContentType(h) ==
  LET ks == {k \in DOMAIN h : ToLower(k) = ToLower(ContentTypeKey) /\ Len(h[k]) > 0}
  IN  IF ks = {} THEN <<>> ELSE h[CHOOSE k \in ks : TRUE][1]

ResolvedContentType ==
  LET fromRequest == GivenContentType(o.Headers.m)
      given       == IF \E k \in DOMAIN o.Headers.m :
                          ToLower(k) = ToLower(ContentTypeKey) /\ Len(o.Headers.m[k]) > 0
                     THEN fromRequest
                     ELSE GivenContentType(c.Headers)
  IN  IF HasBody /\ given = <<>> THEN ApplicationJSON ELSE given

\* A Content-Type lower-cased and cut at its first ";": the longest prefix
\* without one.
CutAndLowered(ct) ==
  LET n == Cardinality({i \in 1..Len(ct) : \A j \in 1..i : ct[j] # ";"})
  IN  ToLower(SubSeq(ct, 1, n))

\* The dispatch table of the claim: the encoding of each base Content-Type.
TableEncoding(base) ==
  CASE base = ApplicationJSON -> "json"
    [] base = ApplicationXML -> "xml"
    [] base = TextXML -> "xml"
    [] base = FormURLEncoded -> "form"
    [] base = MultipartFormData -> "multipart"
    [] base = TextPlain -> "text"
    [] base = OctetStream -> "raw"
    [] OTHER -> "json"

\* The body of the call was encoded.
BodyEncoded == pc \in {"query", "execute", "done"} /\ ~requestBody.isNil

\* C9: the encoding of a request body is the one the table gives for the
\* resolved Content-Type, lower-cased and cut at the first ";", whatever its
\* letter case and parameters: JSON, XML, the percent-encoded key=value
\* join, multipart, the string as it is, raw bytes (a reader drained to its
\* end), and JSON for every other value.
C9_DispatchByContentType ==
  BodyEncoded =>
    /\ requestBody.enc = TableEncoding(CutAndLowered(ResolvedContentType))
    /\ (requestBody.enc = "raw" /\ o.Body.type = "io.Reader")
         => (o.Body.pos = Len(o.Body.data) /\ requestBody.data = o.Body.data)
    /\ (requestBody.enc = "raw" /\ o.Body.type = "[]byte") => requestBody.data = o.Body.data
    /\ (requestBody.enc = "text" /\ o.Body.type = "string") => requestBody.data = o.Body.data
    /\ (requestBody.enc = "form" /\ o.Body.type = "map[string]string")
         => requestBody.data = <<"a", "=", "1", "+", "2", "&", "b", "=", "%", "2", "6">>
    /\ (requestBody.enc = "form" /\ o.Body.type = "url.Values")
         => requestBody.data = <<"a", "=", "1", "&", "a", "=", "2">>

\* A body was encoded as XML under a Content-Type written in capitals.
C9_Witness ==
  /\ BodyEncoded
  /\ ResolvedContentType = ToUpper(ApplicationXML)
  /\ requestBody.enc = "xml"

\* The shapes a branch does not take.
FormMismatch == o.Body.type \notin {"map[string]string", "url.Values"}
MultipartMismatch ==
  \/ o.Body.type # "map[string]any"
  \/ \E k \in DOMAIN o.Body.fields : o.Body.fields[k].type \notin {"string", "[]byte"}
OctetMismatch == o.Body.type \notin {"[]byte", "io.Reader"}

\* The call failed before the transport ran, with no response.
FailedInAssembly == res.isNil /\ err.type = "error" /\ sent = 0

\* C10: a body whose shape its branch does not take makes the call fail with
\* an error and no response (for every method but GET, which fails for the
\* body itself, with the branch's own error): form-urlencoded with neither
\* a map[string]string nor url.Values, multipart with no map[string]any or
\* with a field that is neither string nor []byte, octet-stream with
\* neither []byte nor io.Reader.
C10_ShapeMismatchFails ==
  (Returned /\ HasBody) =>
    LET base == CutAndLowered(ResolvedContentType)
    IN  /\ (base = FormURLEncoded /\ FormMismatch)
             => (FailedInAssembly /\ (method # MethodGet => err = Err(ErrFormShape)))
        /\ (base = MultipartFormData /\ MultipartMismatch)
             => (FailedInAssembly
                 /\ (method # MethodGet => err \in {Err(ErrMultipartShape), Err(ErrMultipartField)}))
        /\ (base = OctetStream /\ OctetMismatch)
             => (FailedInAssembly /\ (method # MethodGet => err = Err(ErrOctetShape)))

\* A multipart call with a field of another type has failed for that field.
C10_Witness ==
  /\ Returned
  /\ CutAndLowered(ResolvedContentType) = MultipartFormData
  /\ o.Body.type = "map[string]any"
  /\ MultipartMismatch
  /\ err = Err(ErrMultipartField)
  /\ res.isNil

\* The errors of request assembly.
AssemblyErrors ==
  {ErrGetBody, ErrFormShape, ErrMultipartShape, ErrMultipartField, ErrOctetShape,
   ErrJSONUnsupported, ErrXMLUnsupported, ErrRead, ErrURLParse, ErrNewRequest}

\* C8: a call runs the transport at most once, and not at all when request
\* assembly fails: a call that returned an assembly error (a GET body, a
\* shape mismatch, a serialization failure, a URL that does not parse) has
\* run no exchange, and every other returned call exactly one, be its
\* result a transport failure or a response with any status.
C8_TransportAtMostOnce ==
  /\ sent <= 1
  /\ pc \in {"idle", "encode", "query", "execute"} => sent = 0
  /\ Returned =>
       /\ (err.type = "error" /\ err.msg \in AssemblyErrors) => (sent = 0 /\ res.isNil)
       /\ (method = MethodGet /\ HasBody) => sent = 0
       /\ url \in BadURLs => sent = 0
       /\ (err = Err(ErrTransport) \/ ~res.isNil) => sent = 1
       /\ sent = 1 => (err = Err(ErrTransport) /\ res.isNil) \/ (err = NilErr /\ ~res.isNil)

\* A call has returned the URL error with no exchange run.
C8_Witness ==
  /\ Returned
  /\ url \in BadURLs
  /\ err.msg \in {ErrURLParse, ErrNewRequest}
  /\ sent = 0

\* The pieces of a URL's query string as written (the text after the first
\* "?", cut at every "&"), the empty ones left out.
PiecesOf(u) ==
  LET NotEmpty(p) == p # <<>>
  IN  SelectSeq(Split(Cut(u, "?").after, "&"), NotEmpty)

\* The key of a piece, and the values a key has in a list of pieces, both
\* as written.
PieceKey(p) == Cut(p, "=").before
ValuesOfKey(pieces, key) ==
  LET HasKey(p) == PieceKey(p) = key
      kept == SelectSeq(pieces, HasKey)
  IN  [i \in 1..Len(kept) |-> Cut(kept[i], "=").after]

\* The call was given parameters and its request was built.
BuiltWithParams == ~req.isNil /\ ~o.Params.isNil

\* Every parameter given is in the final URL with exactly its value.
ParamsPresent ==
  LET q == Query(req.URL.RawQuery)
  IN  \A k \in DOMAIN o.Params.m : k \in DOMAIN q /\ q[k] = <<o.Params.m[k]>>

\* The piece p of the caller's URL, its key not among the parameters, has
\* its key in the final URL with the values the caller's URL gave it.
PieceKept(p) ==
  LET key == PieceKey(p)
  IN  (\A k \in DOMAIN o.Params.m : QueryEscape(k) # key)
        => ValuesOfKey(PiecesOf(URLString(req.URL)), key) = ValuesOfKey(PiecesOf(url), key)

\* C7: the final URL has every parameter given with exactly its value, in
\* place of every value the URL had for that key, and every other key of
\* the URL's query string keeps its values.  The claim is read for the
\* pieces of the query string that are validly percent-encoded.
C7_QueryMerged ==
  BuiltWithParams =>
    /\ ParamsPresent
    /\ \A i \in 1..Len(PiecesOf(url)) :
         ~BadEscape(PiecesOf(url)[i]) => PieceKept(PiecesOf(url)[i])

\* A piece that url.ParseQuery takes: no semicolon, no bad escape.
WellFormedPiece(p) == IndexByte(p, ";") = 0 /\ ~BadEscape(p)

\* C7 on the well-formed part of a query string: the parameters given are in
\* the final URL with exactly their values, and every other key of a
\* well-formed piece of the URL's query string keeps its values.
C7_WellFormedQueryMerged ==
  BuiltWithParams =>
    /\ ParamsPresent
    /\ \A i \in 1..Len(PiecesOf(url)) :
         WellFormedPiece(PiecesOf(url)[i]) =>
           LET key == PieceKey(PiecesOf(url)[i])
               WellFormedWithKey(p) == WellFormedPiece(p) /\ PieceKey(p) = key
           IN  (\A k \in DOMAIN o.Params.m : QueryEscape(k) # key)
                 => ValuesOfKey(PiecesOf(URLString(req.URL)), key)
                      = ValuesOfKey(SelectSeq(PiecesOf(url), WellFormedWithKey), key)

\* A URL with a=1 and an escaped b was given a=9: a is replaced, b is kept.
C7_Witness ==
  /\ BuiltWithParams
  /\ url = BaseURL \o <<"?", "a", "=", "1", "&", "b", "=", "%", "2", "6", "+">>
  /\ DOMAIN o.Params.m = {<<"a">>}
  /\ URLString(req.URL) =
       BaseURL \o <<"?", "a", "=", "9", "&", "b", "=", "%", "2", "6", "+">>

\* A helper has returned, and the body it was given had not been closed.
HelperReturned == out.helper # "" /\ out.err # Err(ErrBodyClosed)

Is2xx == res.StatusCode \in 200..299

\* The error of the last helper is the HttpError of the response.
IsHttpErrorOfResponse ==
  /\ out.err.type = "HttpError"
  /\ out.err.http.StatusCode = res.StatusCode
  /\ out.err.http.Status = res.Status
  /\ out.err.http.Method = res.Request.Method
  /\ out.err.http.URL = URLString(res.Request.URL)
  /\ out.err.http.Body = res.Body.data

\* C3 as claimed: a helper returns no HttpError for a status in 200..299, and
\* for every other status the HttpError with the response's status code,
\* status text, method, URL and exact body.
C3_StatusClassifiedAlways ==
  HelperReturned =>
    IF Is2xx THEN out.err.type # "HttpError" ELSE IsHttpErrorOfResponse

\* C3, amended: so it is when the body is read to its end without an error;
\* when reading the body fails, the helper returns the read error and no
\* HttpError, whatever the status.
C3_StatusClassified ==
  HelperReturned =>
    IF res.Body.fail THEN out.err = Err(ErrRead)
    ELSE IF Is2xx THEN out.err.type # "HttpError"
    ELSE IsHttpErrorOfResponse

\* A helper has returned the HttpError of a 404 with a body.
C3_Witness ==
  /\ HelperReturned
  /\ res.StatusCode = 404
  /\ res.Body.data # <<>>
  /\ IsHttpErrorOfResponse
  /\ out.err.http.Method = MethodPost

\* C4: when a helper has returned, on any exit path, the body is closed; and
\* when it returned an HttpError, the body had been read to its end.
C4_BodyClosedOnReturn ==
  out.helper # "" =>
    /\ res.Body.closed
    /\ out.err.type = "HttpError" => res.Body.pos = Len(res.Body.data)

\* A helper has returned the error of a failed read, and the body is closed.
C4_Witness ==
  /\ out.helper # ""
  /\ out.err = Err(ErrRead)
  /\ res.Body.closed

\* A helper was given a 2xx response whose body is empty and reads without
\* an error.
EmptySuccess == HelperReturned /\ Is2xx /\ res.Body.data = <<>> /\ ~res.Body.fail

\* C5: JSON[T] and ReadJSON on a 2xx response with an empty body return no
\* error; JSON[T] yields the zero value and ReadJSON leaves its target as it
\* was given.
C5_EmptyJSONBodySkipped ==
  (EmptySuccess /\ out.helper \in {"JSON", "ReadJSON"}) =>
    /\ out.err = NilErr
    /\ out.target = out.given
    /\ out.helper = "JSON" => out.target.zero

\* ReadJSON has returned from a 204 with an empty body, its target kept.
C5_Witness ==
  /\ EmptySuccess
  /\ out.helper = "ReadJSON"
  /\ res.StatusCode = 204
  /\ ~out.given.zero
  /\ out.target = out.given
  /\ out.err = NilErr

\* C6: XML[T] and ReadXML on a 2xx response with an empty body return no
\* error and the zero value (the target as given).
C6_EmptyXMLBodySkipped ==
  (EmptySuccess /\ out.helper \in {"XML", "ReadXML"}) =>
    /\ out.err = NilErr
    /\ out.target = out.given

\* The Content-Type the call was given, by the request or else the client.
SuppliedContentType ==
  IF \E k \in DOMAIN o.Headers.m :
       ToLower(k) = ToLower(ContentTypeKey) /\ Len(o.Headers.m[k]) > 0
  THEN GivenContentType(o.Headers.m)
  ELSE GivenContentType(c.Headers)

\* A request was built for a field mapping under multipart/form-data.
MultipartRequest ==
  /\ ~req.isNil
  /\ o.Body.type = "map[string]any"
  /\ CutAndLowered(ResolvedContentType) = MultipartFormData

\* The part the multipart branch is to write for the entry k of the body.
PartOf(k) ==
  IF o.Body.fields[k].type = "string"
  THEN [kind |-> "field", name |-> k, filename |-> <<>>, content |-> o.Body.fields[k].vals[1]]
  ELSE [kind |-> "file", name |-> k, filename |-> k, content |-> o.Body.fields[k].vals[1]]

\* C11: a multipart request built from a field mapping has exactly one part
\* per entry, a form field for a string and a file part named after its key
\* for a byte sequence, and its Content-Type is the generated
\* "multipart/form-data; boundary=..." in place of the one supplied.
C11_MultipartParts ==
  MultipartRequest =>
    /\ Len(req.Body.parts) = Cardinality(DOMAIN o.Body.fields)
    /\ \A k \in DOMAIN o.Body.fields :
         Cardinality({i \in 1..Len(req.Body.parts) : req.Body.parts[i].name = k}) = 1
    /\ \A i \in 1..Len(req.Body.parts) :
         /\ req.Body.parts[i].name \in DOMAIN o.Body.fields
         /\ req.Body.parts[i] = PartOf(req.Body.parts[i].name)
    /\ req.Body.boundary \in Boundaries
    /\ req.Header[ContentTypeKey] = <<FormDataContentType(req.Body.boundary)>>

\* A multipart request of a field and a file went out with the generated
\* Content-Type, the caller having supplied another boundary.
C11_Witness ==
  /\ MultipartRequest
  /\ Len(req.Body.parts) = 2
  /\ \E i \in 1..2 : req.Body.parts[i].kind = "file"
  /\ \E i \in 1..2 : req.Body.parts[i].kind = "field"
  /\ SuppliedContentType # <<>>
  /\ req.Header[ContentTypeKey] # <<SuppliedContentType>>

\* C12: a request with a body and no Content-Type supplied (none, or an
\* empty one) carries application/json and a JSON payload; a request
\* without a body has no payload at all, and no Content-Type but the one
\* supplied.
C12_DefaultContentType ==
  (~req.isNil) =>
    /\ (HasBody /\ SuppliedContentType = <<>>)
         => /\ req.Header[ContentTypeKey] = <<ApplicationJSON>>
            /\ ~req.Body.isNil
            /\ req.Body.enc = "json"
            /\ req.Body.of = o.Body
    /\ ~HasBody
         => /\ req.Body.isNil
            /\ req.Body = NilPayload
            /\ ContentTypeKey \in DOMAIN req.Header
                 => /\ \E k \in DOMAIN o.Headers.m \cup DOMAIN c.Headers :
                         ToLower(k) = ToLower(ContentTypeKey)
                    /\ req.Header[ContentTypeKey] = <<SuppliedContentType>>

\* A request with a body and no Content-Type went out as JSON.
C12_Witness ==
  /\ ~req.isNil
  /\ HasBody
  /\ ContentTypeKey \notin DOMAIN c.Headers
  /\ \A k \in DOMAIN o.Headers.m : ToLower(k) # ToLower(ContentTypeKey)
  /\ req.Header[ContentTypeKey] = <<ApplicationJSON>>
  /\ req.Body.enc = "json"

\* C13: a verb call that the server answered with a status outside 200..299
\* returns an HttpError of that status as its error.
C13_VerbReturnsHttpError ==
  (Returned /\ sent = 1 /\ ~res.isNil /\ res.StatusCode \notin 200..299)
    => (err.type = "HttpError" /\ err.http.StatusCode = res.StatusCode)

\* A typed JSON decode has returned.
JSONHelperReturned == HelperReturned /\ out.helper \in {"JSON", "ReadJSON"}

\* The body is no JSON document (on the alphabet of the bodies, JSON is a
\* run of digits), or it is one that the target cannot take.
NotDecodable ==
  \/ \E i \in 1..Len(res.Body.data) : res.Body.data[i] \notin Digits
  \/ out.given.type # "int"

\* C14 as claimed: typed JSON decode returns an HttpError for every status
\* outside 200..299, and a decode error for a 2xx body that is not empty and
\* not decodable.
C14_StatusBeforeDecodeAlways ==
  JSONHelperReturned =>
    /\ ~Is2xx => out.err.type = "HttpError"
    /\ (Is2xx /\ res.Body.data # <<>> /\ NotDecodable) => out.err = Err(ErrDecodeJSON)

\* C14, amended: so it is when the body is read without an error; when
\* reading the body fails the helper returns the read error, which is
\* neither an HttpError nor a decode error.
C14_StatusBeforeDecode ==
  JSONHelperReturned =>
    IF res.Body.fail THEN out.err = Err(ErrRead)
    ELSE /\ ~Is2xx => out.err.type = "HttpError"
         /\ (Is2xx /\ res.Body.data # <<>> /\ NotDecodable) => out.err = Err(ErrDecodeJSON)

\* A typed JSON decode has returned the HttpError of a 404 whose body is no
\* JSON.
C14_Witness ==
  /\ JSONHelperReturned
  /\ res.StatusCode = 404
  /\ res.Body.data = <<"a">>
  /\ ~res.Body.fail
  /\ out.err.type = "HttpError"

\* The entries of the header map h that are the key ck, case aside, and have
\* a value.
EntriesFor(h, ck) == {j \in DOMAIN h : CanonicalMIMEHeaderKey(j) = ck /\ Len(h[j]) > 0}

\* Every key, in canonical form, of the client's and the request's headers.
GivenKeys ==
  {CanonicalMIMEHeaderKey(j) : j \in DOMAIN c.Headers \cup DOMAIN o.Headers.m}

\* The outgoing request holds for ck what the claim says: the first value of
\* a request entry that has one, else the first value of a client entry
\* that has one, else nothing.
ResolvedAsMerged(ck) ==
  IF EntriesFor(o.Headers.m, ck) # {}
  THEN /\ ck \in DOMAIN req.Header
       /\ \E j \in EntriesFor(o.Headers.m, ck) : req.Header[ck] = <<o.Headers.m[j][1]>>
  ELSE IF EntriesFor(c.Headers, ck) # {}
  THEN /\ ck \in DOMAIN req.Header
       /\ \E j \in EntriesFor(c.Headers, ck) : req.Header[ck] = <<c.Headers[j][1]>>
  ELSE ck \notin DOMAIN req.Header

\* C19 as claimed: the headers of an outgoing request hold one value per
\* key, the first of the request's entry or else of the client's, and no
\* key besides.
C19_OneValuePerKeyAlways ==
  (~req.isNil) =>
    \A ck \in GivenKeys \cup DOMAIN req.Header : ResolvedAsMerged(ck)

\* C19, amended: so it is for every key but the Content-Type of a request
\* with a body, which holds one value too: application/json when none was
\* supplied, the generated multipart value in the multipart branch, and
\* else the one supplied.
C19_OneValuePerKey ==
  (~req.isNil) =>
    \A ck \in GivenKeys \cup DOMAIN req.Header :
      IF ck = ContentTypeKey /\ HasBody
      THEN /\ ck \in DOMAIN req.Header
           /\ Len(req.Header[ck]) = 1
           /\ IF req.Body.enc = "multipart"
              THEN req.Header[ck] = <<FormDataContentType(req.Body.boundary)>>
              ELSE req.Header[ck] = <<ResolvedContentType>>
      ELSE ResolvedAsMerged(ck)

\* A request went out with the first of the client's two values for X-A,
\* the request's entry for X-A being an empty list.
C19_Witness ==
  /\ ~req.isNil
  /\ KeyXA \in DOMAIN o.Headers.m
  /\ o.Headers.m[KeyXA] = <<>>
  /\ ToLower(KeyXA) \in DOMAIN c.Headers
  /\ Len(c.Headers[ToLower(KeyXA)]) = 2
  /\ req.Header[KeyXA] = <<c.Headers[ToLower(KeyXA)][1]>>

\* New has returned the client.
Constructed == pc = "idle" /\ c # NoClient

\* A numeric field of the config that was left out: no config, or zero.
Absent(x) == config.isNil \/ x = 0

\* C17: New takes each absent field from the defaults (5 idle connections
\* per host, no timeouts, empty headers) and every other field as given,
\* for the client's configuration and for the transport built from it.
C17_NewDefaults ==
  Constructed =>
    /\ c.MaxIdleConnections =
         IF Absent(config.MaxIdleConnections) THEN 5 ELSE config.MaxIdleConnections
    /\ c.ConnectionTimeout =
         IF Absent(config.ConnectionTimeout) THEN 0 ELSE config.ConnectionTimeout
    /\ c.RequestTimeout =
         IF Absent(config.RequestTimeout) THEN 0 ELSE config.RequestTimeout
    /\ c.Headers =
         IF config.isNil \/ config.Headers.isNil THEN EmptyHeader ELSE config.Headers.m
    /\ c.httpClient.MaxIdleConnsPerHost = c.MaxIdleConnections
    /\ c.httpClient.DialTimeout = c.ConnectionTimeout
    /\ c.httpClient.Timeout = c.RequestTimeout
    /\ c.httpClient.ResponseHeaderTimeout = c.RequestTimeout

\* New has made a client from a config that sets the connection timeout and
\* the headers and leaves the other fields at zero.
C17_Witness ==
  /\ Constructed
  /\ ~config.isNil
  /\ config.MaxIdleConnections = 0
  /\ config.RequestTimeout = 0
  /\ config.ConnectionTimeout = 3
  /\ c.httpClient.MaxIdleConnsPerHost = 5
  /\ c.httpClient.DialTimeout = 3
  /\ c.httpClient.Timeout = 0
  /\ DOMAIN c.Headers = {KeyXA}

\* The header map and the parameter map a call was given, as the caller
\* filled them.
HeadersGiven(in) == IF in.headers = NoLoc THEN EmptyHeader ELSE SharedHeaderMaps[in.headers[2]]
ParamsGiven(in) == IF in.params = NoLoc THEN NilMap ELSE MapOf(SharedParams)

\* What do makes of the call in when it runs alone, the maps visited in the
\* orders given and the multipart writer drawing boundary: the request, or
\* the error of the first section that fails.
Alone(in, ordC, ordO, ordB, boundary, ordP) ==
  LET h == MergeHeaders(c.Headers, HeadersGiven(in), ordC, ordO)
      e == ValidateAndEncode(in.method, h, in.body, ordB, boundary)
      a == AppendParams(in.url, ParamsGiven(in), ordP)
      n == NewRequest(in.method, a.uri, e.headers, e.payload)
  IN  IF e.err.type # "nil" THEN [err |-> e.err, req |-> NilRequest]
      ELSE IF a.err.type # "nil" THEN [err |-> a.err, req |-> NilRequest]
      ELSE n

\* The results that the call in may have alone.
AloneResults(in) ==
  { Alone(in, ordC, ordO, ordB, boundary, ordP) :
      ordC \in Orders(DOMAIN c.Headers), ordO \in Orders(DOMAIN HeadersGiven(in)),
      ordB \in Orders(DOMAIN in.body.fields), boundary \in Boundaries,
      ordP \in Orders(DOMAIN ParamsGiven(in).m) }

\* C15: whatever else runs on the client, the request a call sends (method,
\* URL with query, headers, payload) is one the call sends when it runs
\* alone, and a call that fails before sending fails as it does alone.
C15_CallsIndependent ==
  \A i \in Calls :
    /\ ~calls[i].sent.isNil
         => \E r \in AloneResults(calls[i].in) : r.err = NilErr /\ r.req = calls[i].sent
    /\ (calls[i].pc = "done" /\ calls[i].sent.isNil)
         => \E r \in AloneResults(calls[i].in) : r.err = calls[i].err /\ r.err # NilErr

\* Two calls are in flight at once, one sent with the generated multipart
\* Content-Type and parameters, the other with the default application/json.
C15_Witness ==
  \E i, j \in Calls :
    /\ calls[i].pc = "done" /\ calls[j].pc = "done"
    /\ ~calls[i].sent.isNil /\ ~calls[j].sent.isNil
    /\ calls[i].sent.Body.enc = "multipart"
    /\ calls[i].in.params # NoLoc
    /\ calls[j].sent.Body.enc = "json"
    /\ calls[j].in.headers # calls[i].in.headers
    /\ calls[j].sent.Header # calls[i].sent.Header

\* C16: the client holds what New stored, its default headers included,
\* whatever calls and helpers have run.
C16_ConfigImmutable ==
  /\ c = New(config)
  /\ mem[ClientHeaders] = New(config).Headers

\* A call has sent application/json by default and its response was read,
\* while another has sent the generated multipart Content-Type; the
\* client's headers hold no Content-Type.
C16_Witness ==
  \E i, j \in Calls :
    /\ calls[i].pc = "read"
    /\ ~calls[i].sent.isNil
    /\ HeaderGet(calls[i].sent.Header, ContentTypeKey) = ApplicationJSON
    /\ ~calls[j].sent.isNil
    /\ calls[j].sent.Body.enc = "multipart"
    /\ ContentTypeKey \notin DOMAIN mem[ClientHeaders]

\* C18: the headers of an HttpError are those the response had when the
\* helper returned; a change of the response's headers leaves them as they
\* were, and a change of theirs leaves the response's.
C18_ErrorHeadersSnapshot ==
  \A i \in Calls :
    calls[i].out.err.type = "HttpError" =>
      LET ofError    == mem[calls[i].out.err.http.Headers]
          ofResponse == mem[calls[i].res.Header]
      IN  /\ calls[i].changed = "" => (ofError = ResponseHeader /\ ofResponse = ResponseHeader)
          /\ calls[i].changed = "response"
               => (ofError = ResponseHeader /\ ofResponse # ResponseHeader)
          /\ calls[i].changed = "error"
               => (ofResponse = ResponseHeader /\ ofError # ResponseHeader)

\* The caller has set a header of a response whose HttpError it holds.
C18_Witness ==
  \E i \in Calls :
    /\ calls[i].out.err.type = "HttpError"
    /\ calls[i].changed = "response"
    /\ KeyXA \in DOMAIN mem[calls[i].res.Header]
    /\ KeyXA \notin DOMAIN mem[calls[i].out.err.http.Headers]

\* C20: the maps given to WithHeaders and WithParams hold what the caller
\* put in them, whatever calls have run and however they ended.
C20_OptionsUntouched ==
  /\ \A k \in DOMAIN SharedHeaderMaps : mem[CallerHeaders(k)] = SharedHeaderMaps[k]
  /\ mem[CallerParams] = SharedParams

\* A call given a header map and a parameter map has sent its request with
\* the generated multipart Content-Type and the parameter in its URL, and a
\* call given a header map has failed.
C20_Witness ==
  \E i, j \in Calls :
    /\ calls[i].in.headers = CallerHeaders("2")
    /\ calls[i].in.params = CallerParams
    /\ calls[i].pc = "done"
    /\ ~calls[i].sent.isNil
    /\ HeaderGet(calls[i].sent.Header, ContentTypeKey)
         = FormDataContentType(calls[i].sent.Body.boundary)
    /\ calls[i].sent.URL.RawQuery = <<"a", "=", "1", "&", "b", "=", "2">>
    /\ calls[j].in.headers = CallerHeaders("1")
    /\ calls[j].pc = "done"
    /\ calls[j].err # NilErr

\* The errors of body encoding.
EncodingErrors ==
  {ErrFormShape, ErrMultipartShape, ErrMultipartField, ErrOctetShape,
   ErrJSONUnsupported, ErrXMLUnsupported, ErrRead}

\* The body of the call cannot be encoded under its Content-Type: its shape
\* is not the branch's, its type cannot be serialized, or reading it fails.
EncodingFails ==
  LET enc == TableEncoding(CutAndLowered(ResolvedContentType))
  IN  \/ enc = "json" /\ o.Body.type = "chan"
      \/ enc = "xml"
           /\ o.Body.type \in {"chan", "map[string]string", "map[string]any", "url.Values"}
      \/ enc = "form" /\ FormMismatch
      \/ enc = "multipart" /\ MultipartMismatch
      \/ enc = "raw" /\ (OctetMismatch \/ (o.Body.type = "io.Reader" /\ o.Body.fail))

\* The body is a reader that the raw branch takes.
RawReader ==
  o.Body.type = "io.Reader" /\ TableEncoding(CutAndLowered(ResolvedContentType)) = "raw"

\* C21: the first failing check decides the error, in the order GET body,
\* body encoding, URL, transport: a GET with a body fails for the body
\* before anything is encoded; else a body that cannot be encoded fails for
\* that, whatever the URL; else a URL that does not parse fails the call
\* with no exchange, a reader body being drained by then; else the
\* transport runs.
C21_ChecksInOrder ==
  Returned =>
    IF method = MethodGet /\ HasBody
    THEN err = Err(ErrGetBody) /\ sent = 0 /\ o.Body.pos = 0
    ELSE IF HasBody /\ EncodingFails
    THEN err.type = "error" /\ err.msg \in EncodingErrors /\ sent = 0
    ELSE IF url \in BadURLs
    THEN /\ err.type = "error" /\ err.msg \in {ErrURLParse, ErrNewRequest}
         /\ sent = 0
         /\ RawReader => o.Body.pos = Len(o.Body.data)
    ELSE sent = 1

\* A call with a wrongly shaped form body and a URL that does not parse has
\* returned the error of the body's shape.
C21_Witness ==
  /\ Returned
  /\ url \in BadURLs
  /\ method # MethodGet
  /\ TableEncoding(CutAndLowered(ResolvedContentType)) = "form"
  /\ FormMismatch
  /\ err = Err(ErrFormShape)

\* The headers of a map other than Content-Type.
OtherHeaders(h) == [k \in DOMAIN h \ {ContentTypeKey} |-> h[k]]

\* C22, its first part: whatever the caller has done to its Config or to the
\* header map in it since New returned, the headers a request goes out
\* with (Content-Type aside, which the body may set) are those merged from
\* the default headers New stored and the headers of the request.
C22_DefaultHeadersFixed ==
  \A i \in Calls :
    ~calls[i].sent.isNil =>
      \E ordC \in Orders(DOMAIN c.Headers),
         ordO \in Orders(DOMAIN HeadersGiven(calls[i].in)) :
        OtherHeaders(calls[i].sent.Header)
          = OtherHeaders(MergeHeaders(c.Headers, HeadersGiven(calls[i].in), ordC, ordO))

====
